---- MODULE Spec2Model ----
(***************************************************************************)
(* Card issuance and verification engine of civictech-vpass.               *)
(*                                                                         *)
(* Time is counted in whole days.  The relational store is modelled row by *)
(* row; every awaited database or network call of a handler is one step,   *)
(* so that concurrent handlers interleave exactly at their await points.   *)
(* A transaction opened with pool.begin() runs at PostgreSQL's default     *)
(* READ COMMITTED level: its writes are private until commit, an UPDATE    *)
(* sees the rows committed when the statement starts and waits for row     *)
(* locks held by other open transactions.                                  *)
(***************************************************************************)
EXTENDS Integers, Sequences, FiniteSets, TLC

\* ---------------------------------------------------------------- bounds
MaxCalls == 2
MaxTicks == 2
MaxBatch == 2
MaxQrRows == 2
MaxLifeCalls == 1
MaxRefreshes == 2
MaxSessions == 2
MaxTokenTicks == 1
MaxCallTicks == 1
MaxVerifications == 2
MaxEvents == 2

\* ------------------------------------------------------ program constants
CREATE_EXPIRATION_DAYS == 30
EXPIRATION_EXTENSION_DAYS == 30
FAILURE_THRESHOLD == 3
REVERIFICATION_INTERVAL_DAYS == 1
TOKEN_LIFETIME_DAYS == 0

\* SQL NULL / Option::None for integer-valued columns
Null == 0 - 1

Procs == {"p1", "p2"}
YtUsers == {"u1", "u2"}

\* CardStatus enum
CardStatus == {"active", "expired", "revoked", "suspended", "deleted"}

\* card_issuers table (static configuration, read-only for the core):
\* i1 is active and wallet-enabled, i2 is inactive, i3 has no vc_uid.
\* "i0" is an id without a row.
IssuerIds == {"i1", "i2", "i3"}
RequestIssuerIds == IssuerIds \cup {"i0"}
CardIssuer(i) ==
    [id |-> i,
     is_active |-> (i # "i2"),
     vc_uid |-> IF i = "i3" THEN Null ELSE 7,
     verification_video_id |-> "V",
     verification_method |-> "video"]

\* Step sizes by which the clock may advance (days)
TickSteps == {1, CREATE_EXPIRATION_DAYS}

VARIABLES
    cards,        \* membership_cards table: sequence of rows, id = index
    members,      \* members table: sequence of rows, id = index
    now,          \* wall clock / database clock, in days
    ticks,        \* number of clock advances so far
    walletMinted, \* number of QR transactions minted by the wallet API
    calls,        \* number of issue_card calls started so far
    loc,          \* per request task: position and locals of issue_card
    job,          \* the re-verification sweep: position and locals
    streak,       \* per card: completed 'not a member' sweeps in a row
    walletQrCodes,\* wallet_qr_codes table: sequence of rows, id = index
    scanned,      \* wallet side: transactions whose QR the wallet app scanned
    poll,         \* per poll request task: position and locals of poll_credential
    sessions,     \* oauth_sessions table: sequence of rows, id = index
    tokensIssued, \* number of access tokens the OAuth provider has issued
    tok,          \* per claim request task: position and locals of the
                  \* token handling of claim_card_for_channel
    verificationSessions, \* verification_sessions table, by transaction id
    verificationEvents,   \* verification_events table: sequence of rows
    oidvpResults, \* verifier side: the result of each OIDVP transaction
    chk,          \* per check_result request task: position and locals
    up,           \* per Member::find_or_create call: position and locals
    retry,        \* the running retry_youtube_api call: position and locals
    fn            \* the pure function applied last: arguments and value

jobv == <<job>>

pollv == <<walletQrCodes, scanned, poll>>

tokv == <<sessions, tokensIssued, tok>>
verv == <<verificationSessions, verificationEvents, oidvpResults, chk>>
restv == <<up, retry, fn>>
sidev == <<verv, restv>>

vars == <<cards, members, now, ticks, walletMinted, calls, loc, job, streak,
          walletQrCodes, scanned, poll, sessions, tokensIssued, tok,
          verificationSessions, verificationEvents, oidvpResults, chk,
          up, retry, fn>>

\* ------------------------------------------------------ wallet health probe
\* Outcomes of the HEAD request: an HTTP status, a transport error, or no
\* answer within the 3 second timeout (both surface as reqwest::Error).
HealthStatuses == {200, 404, 500, 503}
HealthResponses ==
    {[kind |-> "status", status |-> st] : st \in HealthStatuses}
    \cup {[kind |-> "transport", status |-> 0], [kind |-> "timeout", status |-> 0]}

NoHealth == [kind |-> "none", status |-> 0]
HealthPassed == [kind |-> "passed", status |-> 0]

IsServerError(status) == status >= 500 /\ status <= 599

\* variant: only HTTP 500 itself counts as unhealthy
check_wallet_health_only500(resp) ==
    IF resp.kind \in {"transport", "timeout"} THEN "HttpError"
    ELSE IF resp.status = 500 THEN "ApiError"
    ELSE "Ok"

check_wallet_health(resp) ==
    IF resp.kind \in {"transport", "timeout"} THEN "HttpError"
    ELSE IF IsServerError(resp.status) THEN "ApiError"
    ELSE "Ok"

\* response of POST /api/qrcode/data number k
WalletQrResponse(k) ==
    [transaction_id |-> k, qr_code |-> 100 + k, deep_link |-> 200 + k]

NoWallet == [transaction_id |-> Null, qr_code |-> Null, deep_link |-> Null]

NoCard == [id |-> 0]

NoResult == [kind |-> "none", info |-> Null, card |-> NoCard]

Err(kind) == [kind |-> kind, info |-> Null, card |-> NoCard]

Idle ==
    [pc |-> "idle", issuer_id |-> "i0", yt |-> "u1",
     link |-> "bare", author_channel_id |-> "none", comment_video |-> "none",
     member_id |-> 0, health |-> NoHealth,
     wallet |-> NoWallet, card_id |-> 0, dup |-> 0,
     tx_snap |-> {}, tx_del |-> {}, tx_new |-> NoCard,
     superseded |-> {}, ops |-> {}, result |-> NoResult]

\* ------------------------------------------------------ comment reference
\* Parsed shape of the submitted reference: a bare comment id, a link with
\* an lc parameter only, a link whose v parameter is the verification video,
\* a link to another video, garbage.
Links == {"bare", "lc_only", "match", "mismatch", "invalid"}

\* variant: the v parameter of a link is ignored (extract_comment_id)
extract_comment_and_video_id_ignore_video(link) ==
    CASE link \in {"bare", "lc_only", "match", "mismatch"}
                           -> [ok |-> TRUE,  comment |-> "C", video |-> "none"]
      [] OTHER             -> [ok |-> FALSE, comment |-> "",  video |-> "none"]

extract_comment_and_video_id(link) ==
    CASE link = "bare"     -> [ok |-> TRUE,  comment |-> "C", video |-> "none"]
      [] link = "lc_only"  -> [ok |-> TRUE,  comment |-> "C", video |-> "none"]
      [] link = "match"    -> [ok |-> TRUE,  comment |-> "C", video |-> "V"]
      [] link = "mismatch" -> [ok |-> TRUE,  comment |-> "C", video |-> "W"]
      [] OTHER             -> [ok |-> FALSE, comment |-> "",  video |-> "none"]

\* ------------------------------------------------------ comment proof check
\* Upstream answers to comments.list: transport failure, non-2xx status,
\* unparsable body, empty item list, or a comment written by some author.
CommentResponses == {"transport", "status", "badjson", "empty"} \cup YtUsers

\* the videos upstream comments can be posted on: the verification video of
\* the issuers and another one
CommentVideos == {"V", "W"}

\* variant: the author of the comment is not compared
verify_comment_any_author(resp, expected_author_channel_id) ==
    CASE resp = "transport" -> "HttpError"
      [] resp = "status"    -> "ApiError"
      [] resp = "badjson"   -> "ParseError"
      [] resp = "empty"     -> "CommentNotFound"
      [] OTHER -> "Ok"

\* verify_comment on the upstream answer; the answer carries the author of
\* the comment but not the video it was posted on
verify_comment(resp, expected_author_channel_id) ==
    CASE resp = "transport" -> "HttpError"
      [] resp = "status"    -> "ApiError"
      [] resp = "badjson"   -> "ParseError"
      [] resp = "empty"     -> "CommentNotFound"
      [] OTHER -> IF resp # expected_author_channel_id
                  THEN "CommentOwnershipMismatch" ELSE "Ok"

\* ------------------------------------------------------------ members table
FindMemberByYt(ms, yt) == {i \in DOMAIN ms : ms[i].youtube_user_id = yt}

\* the display names an upstream profile can carry
DisplayNames == {"n0", "n1"}

\* the display name the profiles carry while cards are issued
CurrentDisplayName == "n0"

\* row inserted by Member::create
NewMember(yt, display_name) ==
    [youtube_user_id |-> yt, default_display_name |-> display_name]

\* Member::update_profile with a display name
\* variant: the UPDATE misses its WHERE clause
update_profile_all_rows(ms, id, display_name) ==
    [i \in DOMAIN ms |-> [ms[i] EXCEPT !.default_display_name = display_name]]

update_profile(ms, id, display_name) ==
    [ms EXCEPT ![id].default_display_name = display_name]

\* Member::find_or_create run without interference: returns <<members', id>>
find_or_create(ms, yt, display_name) ==
    IF FindMemberByYt(ms, yt) # {}
    THEN LET id == CHOOSE i \in FindMemberByYt(ms, yt) : TRUE
         IN <<update_profile(ms, id, display_name), id>>
    ELSE <<Append(ms, NewMember(yt, display_name)), Len(ms) + 1>>

\* -------------------------------------------------------------- cards table
IsUnexpired(c, t) == c.expires_at = Null \/ c.expires_at > t

\* variant: the expiry comparison is inverted
find_active_unexpired_cards_inverted(cs, issuer, member, t) ==
    {i \in DOMAIN cs : /\ cs[i].issuer_id = issuer
                       /\ cs[i].member_id = member
                       /\ cs[i].status = "active"
                       /\ (cs[i].expires_at = Null \/ cs[i].expires_at < t)}

\* MembershipCard::find_active_unexpired_cards: the matching row ids
find_active_unexpired_cards(cs, issuer, member, t) ==
    {i \in DOMAIN cs : /\ cs[i].issuer_id = issuer
                       /\ cs[i].member_id = member
                       /\ cs[i].status = "active"
                       /\ IsUnexpired(cs[i], t)}

\* ORDER BY issued_at DESC, then .first(): any row of the latest issue time
FirstByIssuedDesc(cs, ids) ==
    {i \in ids : \A j \in ids : cs[j].issued_at <= cs[i].issued_at}

\* WHERE clause of create's supersede UPDATE
SupersedeMatches(cs, issuer, member) ==
    {i \in DOMAIN cs : /\ cs[i].issuer_id = issuer
                       /\ cs[i].member_id = member
                       /\ cs[i].status # "deleted"}

\* row inserted by create
NewCard(issuer, member, t) ==
    [issuer_id |-> issuer, member_id |-> member,
     status |-> "active",
     expires_at |-> t + CREATE_EXPIRATION_DAYS,
     last_verified_at |-> Null,
     verification_failures |-> 0,
     issued_at |-> t,
     verification_video_id |-> CardIssuer(issuer).verification_video_id,
     wallet_transaction_id |-> Null,
     wallet_qr_code |-> Null,
     wallet_deep_link |-> Null,
     wallet_cid |-> Null,
     wallet_scanned_at |-> Null]

\* MembershipCard::set_wallet_qr
set_wallet_qr(cs, id, w) ==
    [cs EXCEPT ![id].wallet_transaction_id = w.transaction_id,
               ![id].wallet_qr_code = w.qr_code,
               ![id].wallet_deep_link = w.deep_link]

\* variant: the WHERE id = $1 clause is missing
set_status_all_rows(cs, id, status) == [i \in DOMAIN cs |-> [cs[i] EXCEPT !.status = status]]

\* MembershipCard::set_status
set_status(cs, id, status) == [cs EXCEPT ![id].status = status]

\* variant: the failure count is left as it is
extend_expiration_keep_failures(cs, id, days, t) ==
    [cs EXCEPT ![id].expires_at = t + days,
               ![id].last_verified_at = t]

\* MembershipCard::extend_expiration
extend_expiration(cs, id, days, t) ==
    [cs EXCEPT ![id].expires_at = t + days,
               ![id].last_verified_at = t,
               ![id].verification_failures = 0]

\* MembershipCard::increment_verification_failure
increment_verification_failure(cs, id, t) ==
    [cs EXCEPT ![id].verification_failures = @ + 1,
               ![id].last_verified_at = t]

\* rows locked by open transactions of request tasks other than p
LockedByOthers(p) == UNION {loc[q].tx_del : q \in Procs \ {p}}

\* ------------------------------------------------------------- issue_card
\* One action per awaited call of issue_card; the synchronous code that
\* follows an await belongs to the same action.
Fail(p, kind, op) ==
    loc' = [loc EXCEPT ![p].pc = "done",
                       ![p].result = Err(kind),
                       ![p].ops = @ \cup op,
                       ![p].tx_snap = {},
                       ![p].tx_del = {},
                       ![p].tx_new = NoCard]

\* entry: without a wallet configuration the call ends at once, otherwise
\* the health probe is sent.  The fields of the request are drawn at the
\* step that first reads them.
Start(p) ==
    /\ loc[p].pc = "idle"
    /\ calls < MaxCalls
    /\ calls' = calls + 1
    /\ \E configured \in BOOLEAN :
         IF configured
         THEN loc' = [loc EXCEPT ![p].pc = "health"]
         ELSE loc' = [loc EXCEPT ![p].pc = "done",
                                 ![p].result = Err("IssuerApiNotConfigured")]
    /\ UNCHANGED <<cards, members, now, ticks, walletMinted, jobv, streak, pollv, tokv, sidev>>

\* step 0: wallet health probe
Health(p) ==
    /\ loc[p].pc = "health"
    /\ \E resp \in HealthResponses :
         IF check_wallet_health(resp) = "Ok"
         THEN loc' = [loc EXCEPT ![p].pc = "issuer",
                                 ![p].health = resp,
                                 ![p].ops = @ \cup {"health"}]
         ELSE loc' = [loc EXCEPT ![p].pc = "done",
                                 ![p].health = resp,
                                 ![p].ops = @ \cup {"health"},
                                 ![p].result = Err("WalletServiceUnavailable")]
    /\ UNCHANGED <<cards, members, now, ticks, walletMinted, calls, jobv, streak, pollv, tokv, sidev>>

\* variant: the is_active flag of the issuer row is not looked at
FindIssuer_skips_is_active(p) ==
    /\ loc[p].pc = "issuer"
    /\ \E dbok \in BOOLEAN, i \in RequestIssuerIds, link \in Links :
         LET ref == extract_comment_and_video_id(link)
             l == [loc EXCEPT ![p].issuer_id = i,
                              ![p].health = HealthPassed,
                              ![p].ops = @ \cup {"issuer"}]
             parsed == [l EXCEPT ![p].link = link]
             err(at, kind) == [at EXCEPT ![p].pc = "done", ![p].result = Err(kind)]
         IN IF ~dbok THEN loc' = err(l, "DatabaseError")
            ELSE IF i \notin IssuerIds THEN loc' = err(l, "IssuerNotFound")
            ELSE IF ~ref.ok THEN loc' = err(parsed, "InvalidCommentId")
            ELSE IF ref.video # "none" /\ ref.video # CardIssuer(i).verification_video_id
                 THEN loc' = err(parsed, "InvalidCommentId")
            ELSE loc' = [parsed EXCEPT ![p].pc = "verify"]
    /\ UNCHANGED <<cards, members, now, ticks, walletMinted, calls, jobv, streak, pollv, tokv, sidev>>

\* steps 1 and 2: load and validate the issuer, parse the reference
FindIssuer(p) ==
    /\ loc[p].pc = "issuer"
    /\ \E dbok \in BOOLEAN, i \in RequestIssuerIds, link \in Links :
         LET ref == extract_comment_and_video_id(link)
             l == [loc EXCEPT ![p].issuer_id = i,
                              ![p].health = HealthPassed,
                              ![p].ops = @ \cup {"issuer"}]
             parsed == [l EXCEPT ![p].link = link]
             err(at, kind) == [at EXCEPT ![p].pc = "done", ![p].result = Err(kind)]
         IN IF ~dbok THEN loc' = err(l, "DatabaseError")
            ELSE IF i \notin IssuerIds THEN loc' = err(l, "IssuerNotFound")
            ELSE IF ~CardIssuer(i).is_active THEN loc' = err(l, "IssuerNotFound")
            ELSE IF ~ref.ok THEN loc' = err(parsed, "InvalidCommentId")
            ELSE IF ref.video # "none" /\ ref.video # CardIssuer(i).verification_video_id
                 THEN loc' = err(parsed, "InvalidCommentId")
            ELSE loc' = [parsed EXCEPT ![p].pc = "verify"]
    /\ UNCHANGED <<cards, members, now, ticks, walletMinted, calls, jobv, streak, pollv, tokv, sidev>>

\* step 3: proof check against the upstream API
\* (users: the authenticated users that send requests; videos: the videos
\* the referenced comments are posted on).  author_channel_id is the author
\* the answer names, comment_video the video the comment is on upstream.
VerifyComment(p, users, videos) ==
    /\ loc[p].pc = "verify"
    /\ \E resp \in CommentResponses, yt \in users, video \in videos :
         LET r == verify_comment(resp, yt)
             l == [loc EXCEPT ![p].yt = yt,
                              ![p].link = "bare",
                              ![p].author_channel_id =
                                  IF resp \in YtUsers THEN resp ELSE "none",
                              ![p].ops = @ \cup {"proof"}]
         IN IF r = "Ok"
            THEN loc' = [l EXCEPT ![p].pc = "upsert",
                                  ![p].comment_video = video]
            ELSE loc' = [l EXCEPT ![p].pc = "done",
                                  ![p].result = Err(r)]
    /\ UNCHANGED <<cards, members, now, ticks, walletMinted, calls, jobv, streak, pollv, tokv, sidev>>

\* step 4: member upsert
UpsertMember(p) ==
    /\ loc[p].pc = "upsert"
    /\ \E dbok \in BOOLEAN :
         IF dbok
         THEN LET r == find_or_create(members, loc[p].yt, CurrentDisplayName)
              IN /\ members' = r[1]
                 /\ loc' = [loc EXCEPT ![p].pc = "dedupe",
                                       ![p].member_id = r[2],
                                       ![p].ops = @ \cup {"upsert"}]
         ELSE /\ Fail(p, "DatabaseError", {"upsert"})
              /\ UNCHANGED members
    /\ UNCHANGED <<cards, now, ticks, walletMinted, calls, jobv, streak, pollv, tokv, sidev>>

\* step 5 (and the vc_uid check of step 7, which needs no further await)
Dedupe(p) ==
    /\ loc[p].pc = "dedupe"
    /\ \E dbok \in BOOLEAN :
         LET i == loc[p].issuer_id
             existing == find_active_unexpired_cards(cards, i, loc[p].member_id, now)
         IN IF ~dbok THEN Fail(p, "DatabaseError", {"dedupe"})
            ELSE IF existing # {}
                 THEN \E d \in FirstByIssuedDesc(cards, existing) :
                        loc' = [loc EXCEPT ![p].pc = "done",
                                           ![p].dup = d,
                                           ![p].ops = @ \cup {"dedupe"},
                                           ![p].result =
                                               [kind |-> "DuplicateCard",
                                                info |-> cards[d].expires_at,
                                                card |-> NoCard]]
            ELSE IF CardIssuer(i).vc_uid = Null
                 THEN Fail(p, "MissingVcUid", {"dedupe"})
            ELSE loc' = [loc EXCEPT ![p].pc = "walletqr",
                                    ![p].ops = @ \cup {"dedupe"}]
    /\ UNCHANGED <<cards, members, now, ticks, walletMinted, calls, jobv, streak, pollv, tokv, sidev>>

\* step 9: request the wallet QR
GenerateWalletQr(p) ==
    /\ loc[p].pc = "walletqr"
    /\ \E ok \in BOOLEAN :
         IF ok
         THEN /\ walletMinted' = walletMinted + 1
              /\ loc' = [loc EXCEPT ![p].pc = "tx_update",
                                    ![p].wallet = WalletQrResponse(walletMinted + 1),
                                    ![p].ops = @ \cup {"walletqr"}]
         ELSE /\ Fail(p, "WalletQrGeneration", {"walletqr"})
              /\ UNCHANGED walletMinted
    /\ UNCHANGED <<cards, members, now, ticks, calls, jobv, streak, pollv, tokv, sidev>>

\* step 10, MembershipCard::create: BEGIN and the start of the supersede
\* UPDATE.  The statement sees the rows committed now; if one of them is
\* locked by another open transaction the statement waits.
TxUpdate(p) ==
    /\ loc[p].pc = "tx_update"
    /\ \E dbok \in BOOLEAN :
         LET snap == SupersedeMatches(cards, loc[p].issuer_id, loc[p].member_id)
         IN IF ~dbok THEN Fail(p, "DatabaseError", {"create"})
            ELSE IF snap \cap LockedByOthers(p) = {}
                 THEN loc' = [loc EXCEPT ![p].pc = "tx_insert",
                                         ![p].tx_del = snap,
                                         ![p].ops = @ \cup {"create"}]
                 ELSE loc' = [loc EXCEPT ![p].pc = "tx_wait",
                                         ![p].tx_snap = snap,
                                         ![p].ops = @ \cup {"create"}]
    /\ UNCHANGED <<cards, members, now, ticks, walletMinted, calls, jobv, streak, pollv, tokv, sidev>>

\* the waiting UPDATE resumes once the locks are released; it re-checks the
\* WHERE clause on the rows of its snapshot only
TxUpdateResume(p) ==
    /\ loc[p].pc = "tx_wait"
    /\ loc[p].tx_snap \cap LockedByOthers(p) = {}
    /\ loc' = [loc EXCEPT ![p].pc = "tx_insert",
                          ![p].tx_snap = {},
                          ![p].tx_del = {i \in loc[p].tx_snap :
                                            cards[i].status # "deleted"}]
    /\ UNCHANGED <<cards, members, now, ticks, walletMinted, calls, jobv, streak, pollv, tokv, sidev>>

\* the INSERT of create, private to the transaction until commit
TxInsert(p) ==
    /\ loc[p].pc = "tx_insert"
    /\ \E dbok \in BOOLEAN :
         IF dbok
         THEN loc' = [loc EXCEPT ![p].pc = "tx_commit",
                                 ![p].tx_new = NewCard(loc[p].issuer_id,
                                                       loc[p].member_id,
                                                       now)]
         ELSE Fail(p, "DatabaseError", {})
    /\ UNCHANGED <<cards, members, now, ticks, walletMinted, calls, jobv, streak, pollv, tokv, sidev>>

\* effect of a committed create transaction on the table
CommitCreate(cs, del, new) ==
    Append([i \in DOMAIN cs |->
              IF i \in del THEN [cs[i] EXCEPT !.status = "deleted"] ELSE cs[i]],
           new)

\* COMMIT of create
TxCommit(p) ==
    /\ loc[p].pc = "tx_commit"
    /\ \E dbok \in BOOLEAN :
         IF dbok
         THEN /\ cards' = CommitCreate(cards, loc[p].tx_del, loc[p].tx_new)
              /\ streak' = Append(streak, 0)
              /\ loc' = [loc EXCEPT ![p].pc = "setqr",
                                    ![p].card_id = Len(cards) + 1,
                                    ![p].superseded = loc[p].tx_del,
                                    ![p].tx_del = {},
                                    ![p].tx_new = NoCard]
         ELSE /\ Fail(p, "DatabaseError", {})
              /\ UNCHANGED <<cards, streak>>
    /\ UNCHANGED <<members, now, ticks, walletMinted, calls, jobv, pollv, tokv, sidev>>

\* step 11: attach the wallet fields to the card row
SetWalletQr(p) ==
    /\ loc[p].pc = "setqr"
    /\ \E dbok \in BOOLEAN :
         IF dbok
         THEN /\ cards' = set_wallet_qr(cards, loc[p].card_id, loc[p].wallet)
              /\ loc' = [loc EXCEPT ![p].pc = "reload",
                                    ![p].ops = @ \cup {"setqr"}]
         ELSE /\ Fail(p, "DatabaseError", {"setqr"})
              /\ UNCHANGED cards
    /\ UNCHANGED <<members, now, ticks, walletMinted, calls, jobv, streak, pollv, tokv, sidev>>

\* reload of the card and return of Ok(IssueCardResult)
Reload(p) ==
    /\ loc[p].pc = "reload"
    /\ \E dbok \in BOOLEAN :
         IF dbok
         THEN loc' = [loc EXCEPT ![p].pc = "done",
                                 ![p].result =
                                     [kind |-> "Ok", info |-> Null,
                                      card |-> [id |-> loc[p].card_id,
                                                row |-> cards[loc[p].card_id]]]]
         ELSE Fail(p, "DatabaseError", {})
    /\ UNCHANGED <<cards, members, now, ticks, walletMinted, calls, jobv, streak, pollv, tokv, sidev>>

\* the request task ends
Return(p) ==
    /\ loc[p].pc \in {"done", "dropped"}
    /\ loc' = [loc EXCEPT ![p] = Idle]
    /\ UNCHANGED <<cards, members, now, ticks, walletMinted, calls, jobv, streak, pollv, tokv, sidev>>

\* time passes
Tick ==
    /\ ticks < MaxTicks
    /\ \E d \in TickSteps : now' = now + d
    /\ ticks' = ticks + 1
    /\ UNCHANGED <<cards, members, walletMinted, calls, loc, jobv, streak, pollv, tokv, sidev>>

\* the clock advances while concurrent issue_card calls run
TickCalls ==
    /\ ticks < MaxCallTicks
    /\ Tick


\* ------------------------------------------------------------ OAuth tokens
\* A token is the number under which the provider issued it.  A stored
\* BYTEA value keeps how it was produced from the token text.
NoBytes == [form |-> "null", tok |-> 0, nonce |-> 0]

\* String::into_bytes / as_bytes().to_vec(): the UTF-8 bytes of the text
into_bytes(t) == [form |-> "plain", tok |-> t, nonce |-> 0]

\* encryption::encrypt: nonce followed by the AES-256-GCM ciphertext and tag
encrypt(t, nonce) == [form |-> "aead", tok |-> t, nonce |-> nonce]

\* String::from_utf8 on a stored value: yields the token text only when the
\* bytes are that text
from_utf8(b) ==
    IF b.form = "plain" THEN [ok |-> TRUE, tok |-> b.tok]
    ELSE [ok |-> FALSE, tok |-> 0]

\* OAuthSession::is_expired
is_expired(session, t) == session.token_expires_at < t

\* OAuthSession::find_by_member_id: ORDER BY created_at DESC LIMIT 1.
\* created_at has microsecond resolution: of two rows created on the same
\* day the one inserted later is the more recent.
find_by_member_id(ss, m) ==
    {i \in DOMAIN ss :
        /\ ss[i].member_id = m
        /\ \A j \in DOMAIN ss :
             ss[j].member_id = m
             => \/ ss[j].created_at < ss[i].created_at
                \/ ss[j].created_at = ss[i].created_at /\ j <= i}

\* OAuthSession::update_tokens
update_tokens(ss, id, access_token, refresh_token, expires_at) ==
    [ss EXCEPT ![id].access_token = access_token,
               ![id].refresh_token = refresh_token,
               ![id].token_expires_at = expires_at]

\* the row OAuthSession::create inserts
NewSession(member, access_token, refresh_token, expires_at, t) ==
    [member_id |-> member, access_token |-> access_token,
     refresh_token |-> refresh_token, token_expires_at |-> expires_at,
     created_at |-> t]

NoTokenData == [access_token |-> 0, refresh_token |-> 0, expires_at |-> 0]

\* oauth::youtube::refresh_access_token on a successful exchange that issued
\* access token number k: the provider may or may not send a new refresh
\* token; the old one is kept if it does not
refresh_access_token(refresh_token, k, rotated, t) ==
    [access_token |-> k,
     refresh_token |-> IF rotated THEN 100 + k ELSE refresh_token,
     expires_at |-> t + TOKEN_LIFETIME_DAYS]

\* whether the provider sends a new refresh token with a refreshed access
\* token (Google keeps the refresh token)
RefreshTokenRotation == {FALSE}

\* oauth::youtube::exchange_code on a successful exchange
exchange_code(k, with_refresh_token, t) ==
    [access_token |-> k,
     refresh_token |-> IF with_refresh_token THEN 100 + k ELSE Null,
     expires_at |-> t + TOKEN_LIFETIME_DAYS]

\* ------------------------------------------------- re-verification sweep
\* Answers of the upstream videos.list call
VideoResponses ==
    {[kind |-> "status", status |-> st, items |-> n] :
        st \in {200, 204, 401, 403, 404, 429, 500, 503}, n \in {0}}
    \cup {[kind |-> "status", status |-> 200, items |-> 1],
          [kind |-> "badjson", status |-> 200, items |-> 0],
          [kind |-> "transport", status |-> 0, items |-> 0]}

NoVideoResponse == [kind |-> "none", status |-> 0, items |-> 0]

\* variant: HTTP 401 is taken for a negative answer
check_video_access_401_negative(resp) ==
    CASE resp.kind = "transport" -> "HttpError"
      [] resp.kind = "badjson"   -> "ApiError"
      [] resp.status = 200       -> IF resp.items > 0 THEN "member" ELSE "not_member"
      [] resp.status = 403       -> "not_member"
      [] resp.status = 404       -> "not_member"
      [] resp.status = 401       -> "not_member"
      [] OTHER                   -> "ApiError"

\* membership_checker::check_video_access:
\* "member", "not_member", or an error
check_video_access(resp) ==
    CASE resp.kind = "transport" -> "HttpError"
      [] resp.kind = "badjson"   -> "ApiError"
      [] resp.status = 200       -> IF resp.items > 0 THEN "member" ELSE "not_member"
      [] resp.status = 403       -> "not_member"
      [] resp.status = 404       -> "not_member"
      [] resp.status = 401       -> "TokenExpired"
      [] OTHER                   -> "ApiError"

\* sort key of ORDER BY last_verified_at ASC NULLS FIRST
VerifyKey(c) == c.last_verified_at

\* variant: a card verified exactly 24 hours ago is selected again
DueCards_at_interval(cs, t) ==
    {i \in DOMAIN cs :
        /\ cs[i].status = "active"
        /\ (cs[i].last_verified_at = Null
            \/ cs[i].last_verified_at <= t - REVERIFICATION_INTERVAL_DAYS)}

DueCards(cs, t) ==
    {i \in DOMAIN cs :
        /\ cs[i].status = "active"
        /\ (cs[i].last_verified_at = Null
            \/ cs[i].last_verified_at < t - REVERIFICATION_INTERVAL_DAYS)}

Min(a, b) == IF a < b THEN a ELSE b

\* MembershipCard::find_cards_needing_verification: every result list the
\* query may return (rows with equal keys come in any order)
find_cards_needing_verification(cs, limit, t) ==
    LET due == DueCards(cs, t)
        k == Min(limit, Cardinality(due))
    IN {b \in [1..k -> due] :
          /\ \A i, j \in 1..k : i < j => /\ b[i] # b[j]
                                         /\ VerifyKey(cs[b[i]]) <= VerifyKey(cs[b[j]])
          /\ \A d \in due \ {b[i] : i \in 1..k} :
               \A i \in 1..k : VerifyKey(cs[b[i]]) <= VerifyKey(cs[d])}

\* variant: the threshold must be exceeded, not reached
ThresholdReached_exceeded(failures) == failures > FAILURE_THRESHOLD

\* escalation test of verify_single_card
ThresholdReached(failures) == failures >= FAILURE_THRESHOLD

\* VerificationStats as verify_membership_cards creates it
NoStats ==
    [total_checked |-> 0, still_members |-> 0, expired_memberships |-> 0,
     token_refresh_failures |-> 0, api_errors |-> 0]

\* variant: a database error is logged but not counted
CountResult_database_error_uncounted(stats, result) ==
    CASE result = "StillMember"        -> [stats EXCEPT !.still_members = @ + 1]
      [] result = "MembershipExpired"  -> [stats EXCEPT !.expired_memberships = @ + 1]
      [] result = "TokenRefreshFailed" -> [stats EXCEPT !.token_refresh_failures = @ + 1]
      [] result = "ApiError"           -> [stats EXCEPT !.api_errors = @ + 1]
      [] OTHER                         -> stats

\* the match on the result of verify_single_card in verify_membership_cards
CountResult(stats, result) ==
    CASE result = "StillMember"        -> [stats EXCEPT !.still_members = @ + 1]
      [] result = "MembershipExpired"  -> [stats EXCEPT !.expired_memberships = @ + 1]
      [] result = "TokenRefreshFailed" -> [stats EXCEPT !.token_refresh_failures = @ + 1]
      [] result = "ApiError"           -> [stats EXCEPT !.api_errors = @ + 1]
      [] OTHER                         -> [stats EXCEPT !.api_errors = @ + 1]

JobIdle ==
    [pc |-> "idle", batch |-> <<>>, idx |-> 0, failures |-> 0, prev |-> 0,
     resp |-> NoVideoResponse, access |-> "none", result |-> "none",
     stats |-> NoStats,
     ret |-> "none", session |-> 0, token_data |-> NoTokenData,
     access_token |-> 0, refreshed |-> FALSE, attempts |-> 0]

\* the card verify_single_card is working on (only its id, issuer_id and
\* member_id are read from the selected row, and they never change)
JobCard == job.batch[job.idx]

\* ghost bookkeeping at the return of verify_single_card
Tainted == 0 - 1

StreakAfter(st, id, result, answered_not_member) ==
    CASE result = "StillMember"       -> [st EXCEPT ![id] = 0]
      [] result = "MembershipExpired" -> [st EXCEPT ![id] = IF @ = Tainted THEN Tainted ELSE @ + 1]
      [] OTHER -> IF answered_not_member THEN [st EXCEPT ![id] = Tainted] ELSE st

\* verify_membership_cards: select the batch
JobSelectBatch(limit) ==
    /\ job.pc = "idle"
    /\ \E dbok \in BOOLEAN :
         IF ~dbok
         THEN job' = [JobIdle EXCEPT !.pc = "done", !.ret = "Err"]
         ELSE \E b \in find_cards_needing_verification(cards, limit, now) :
                IF Len(b) = 0
                THEN job' = [JobIdle EXCEPT !.pc = "done", !.ret = "Ok"]
                ELSE job' = [JobIdle EXCEPT !.pc = "load",
                                            !.batch = b,
                                            !.idx = 1,
                                            !.stats.total_checked = Len(b)]
    /\ UNCHANGED <<cards, members, now, ticks, walletMinted, calls, loc, streak, pollv, tokv, sidev>>

\* a sweep is started with some batch size
JobSelect == \E limit \in 1..MaxBatch : JobSelectBatch(limit)

\* verify_single_card steps 1 and 2 and the start of step 3: load the
\* issuer and the member's session; a current token is read from the row,
\* an expired one is to be refreshed
JobLoad ==
    /\ job.pc = "load"
    /\ \E dbok \in BOOLEAN, env_set \in BOOLEAN :
         LET found == find_by_member_id(sessions, cards[JobCard].member_id)
             end(result) == job' = [job EXCEPT !.pc = "next", !.result = result]
         IN IF ~dbok THEN end("DatabaseError")
            ELSE IF found = {} THEN end("ApiError")
            ELSE \E id \in found :
                   LET session == sessions[id]
                   IN IF is_expired(session, now)
                      THEN IF ~from_utf8(session.refresh_token).ok
                           THEN end("TokenRefreshFailed")
                           ELSE IF ~env_set THEN end("TokenRefreshFailed")
                           ELSE job' = [job EXCEPT !.pc = "refresh", !.session = id]
                      ELSE IF ~from_utf8(session.access_token).ok
                           THEN end("ApiError")
                           ELSE job' = [job EXCEPT
                                          !.pc = "check", !.session = id,
                                          !.access_token =
                                              from_utf8(session.access_token).tok]
    /\ UNCHANGED <<cards, members, now, ticks, walletMinted, calls, loc, streak, pollv, tokv, sidev>>

\* variant: a failed exchange is tried once more
JobRefresh_retry_once ==
    /\ job.pc = "refresh"
    /\ \E ok \in BOOLEAN, rotated \in RefreshTokenRotation :
         IF ok /\ tokensIssued < Len(sessions) + MaxRefreshes
         THEN /\ tokensIssued' = tokensIssued + 1
              /\ job' = [job EXCEPT
                           !.pc = "update_tokens",
                           !.attempts = @ + 1,
                           !.token_data =
                               refresh_access_token(
                                   from_utf8(sessions[job.session].refresh_token).tok,
                                   tokensIssued + 1, rotated, now)]
         ELSE /\ IF job.attempts = 0
                 THEN job' = [job EXCEPT !.attempts = @ + 1]
                 ELSE job' = [job EXCEPT !.pc = "next", !.attempts = @ + 1,
                                         !.result = "TokenRefreshFailed"]
              /\ UNCHANGED tokensIssued
    /\ UNCHANGED <<cards, members, now, ticks, walletMinted, calls, loc, streak, pollv,
                   sessions, tok, sidev>>

\* step 3: the refresh exchange with the provider, with the refresh token
\* read in JobLoad
JobRefresh ==
    /\ job.pc = "refresh"
    /\ \E ok \in BOOLEAN, rotated \in RefreshTokenRotation :
         IF ok /\ tokensIssued < Len(sessions) + MaxRefreshes
         THEN /\ tokensIssued' = tokensIssued + 1
              /\ job' = [job EXCEPT
                           !.pc = "update_tokens",
                           !.attempts = @ + 1,
                           !.token_data =
                               refresh_access_token(
                                   from_utf8(sessions[job.session].refresh_token).tok,
                                   tokensIssued + 1, rotated, now)]
         ELSE /\ job' = [job EXCEPT !.pc = "next", !.attempts = @ + 1,
                                    !.result = "TokenRefreshFailed"]
              /\ UNCHANGED tokensIssued
    /\ UNCHANGED <<cards, members, now, ticks, walletMinted, calls, loc, streak, pollv,
                   sessions, tok, sidev>>

\* step 3: store the new tokens; the new access token is the one used
JobUpdateTokens ==
    /\ job.pc = "update_tokens"
    /\ \E dbok \in BOOLEAN :
         IF dbok
         THEN /\ sessions' = update_tokens(sessions, job.session,
                                           into_bytes(job.token_data.access_token),
                                           into_bytes(job.token_data.refresh_token),
                                           job.token_data.expires_at)
              /\ job' = [job EXCEPT !.pc = "check",
                                    !.access_token = job.token_data.access_token,
                                    !.token_data = NoTokenData,
                                    !.refreshed = TRUE]
         ELSE /\ job' = [job EXCEPT !.pc = "next", !.result = "DatabaseError",
                                    !.token_data = NoTokenData]
              /\ UNCHANGED sessions
    /\ UNCHANGED <<cards, members, now, ticks, walletMinted, calls, loc, streak, pollv,
                   tokensIssued, tok, sidev>>

\* step 4: membership check
JobCheck ==
    /\ job.pc = "check"
    /\ \E resp \in VideoResponses :
         LET r == check_video_access(resp)
             used == [job EXCEPT !.resp = resp, !.access = r,
                                 !.session = 0, !.access_token = 0,
                                 !.refreshed = FALSE, !.attempts = 0]
         IN CASE r = "member"     -> job' = [used EXCEPT !.pc = "extend"]
              [] r = "not_member" -> job' = [used EXCEPT !.pc = "increment"]
              [] OTHER            -> job' = [used EXCEPT !.pc = "next",
                                                         !.result = "ApiError"]
    /\ UNCHANGED <<cards, members, now, ticks, walletMinted, calls, loc, streak, pollv, tokv, sidev>>

\* step 5, still a member: extend_expiration
JobExtend ==
    /\ job.pc = "extend"
    /\ \E dbok \in BOOLEAN :
         IF dbok
         THEN /\ cards' = extend_expiration(cards, JobCard, EXPIRATION_EXTENSION_DAYS, now)
              /\ job' = [job EXCEPT !.pc = "next", !.result = "StillMember",
                                    !.resp = NoVideoResponse, !.access = "none",
                                    !.prev = cards[JobCard].verification_failures]
              /\ streak' = StreakAfter(streak, JobCard, "StillMember", FALSE)
         ELSE /\ job' = [job EXCEPT !.pc = "next", !.result = "DatabaseError",
                                    !.resp = NoVideoResponse, !.access = "none"]
              /\ UNCHANGED <<cards, streak>>
    /\ UNCHANGED <<members, now, ticks, walletMinted, calls, loc, pollv, tokv, sidev>>

\* step 5, not a member: increment_verification_failure
JobIncrement ==
    /\ job.pc = "increment"
    /\ \E dbok \in BOOLEAN :
         IF dbok
         THEN LET cs == increment_verification_failure(cards, JobCard, now)
                  failures == cs[JobCard].verification_failures
                  prev == cards[JobCard].verification_failures
              IN /\ cards' = cs
                 /\ IF ThresholdReached(failures)
                    THEN /\ job' = [job EXCEPT !.pc = "set_status", !.failures = failures,
                                               !.resp = NoVideoResponse, !.access = "none",
                                               !.prev = prev]
                         /\ UNCHANGED streak
                    ELSE /\ job' = [job EXCEPT !.pc = "next", !.failures = failures,
                                               !.resp = NoVideoResponse, !.access = "none",
                                               !.prev = prev,
                                               !.result = "MembershipExpired"]
                         /\ streak' = StreakAfter(streak, JobCard, "MembershipExpired", TRUE)
         ELSE /\ job' = [job EXCEPT !.pc = "next", !.result = "DatabaseError",
                                    !.resp = NoVideoResponse, !.access = "none"]
              /\ streak' = StreakAfter(streak, JobCard, "DatabaseError", TRUE)
              /\ UNCHANGED cards
    /\ UNCHANGED <<members, now, ticks, walletMinted, calls, loc, pollv, tokv, sidev>>

\* threshold reached: set_status(Expired)
JobSetStatus ==
    /\ job.pc = "set_status"
    /\ \E dbok \in BOOLEAN :
         IF dbok
         THEN /\ cards' = set_status(cards, JobCard, "expired")
              /\ job' = [job EXCEPT !.pc = "next", !.result = "MembershipExpired"]
              /\ streak' = StreakAfter(streak, JobCard, "MembershipExpired", TRUE)
         ELSE /\ job' = [job EXCEPT !.pc = "next", !.result = "DatabaseError"]
              /\ streak' = StreakAfter(streak, JobCard, "DatabaseError", TRUE)
              /\ UNCHANGED cards
    /\ UNCHANGED <<members, now, ticks, walletMinted, calls, loc, pollv, tokv, sidev>>

\* the result of the card is counted; the loop of verify_membership_cards
\* moves on, or the sweep ends
JobNext ==
    /\ job.pc = "next"
    /\ LET st == CountResult(job.stats, job.result)
       IN IF job.idx < Len(job.batch)
          THEN job' = [job EXCEPT !.pc = "load", !.idx = @ + 1,
                                  !.failures = 0, !.prev = 0,
                                  !.resp = NoVideoResponse, !.access = "none", !.result = "none",
                                  !.session = 0, !.access_token = 0,
                                  !.refreshed = FALSE, !.attempts = 0,
                                  !.stats = st]
          ELSE job' = [job EXCEPT !.pc = "done",
                                  !.failures = 0, !.prev = 0,
                                  !.resp = NoVideoResponse, !.access = "none", !.result = "none",
                                  !.session = 0, !.access_token = 0,
                                  !.refreshed = FALSE, !.attempts = 0,
                                  !.stats = st, !.ret = "Ok"]
    /\ UNCHANGED <<cards, members, now, ticks, walletMinted, calls, loc, streak, pollv, tokv, sidev>>

\* verify_membership_cards returns
JobReturn ==
    /\ job.pc = "done"
    /\ job' = JobIdle
    /\ UNCHANGED <<cards, members, now, ticks, walletMinted, calls, loc, streak, pollv, tokv, sidev>>

JobStep ==
    \/ JobSelect \/ JobLoad \/ JobRefresh \/ JobUpdateTokens \/ JobCheck \/ JobExtend
    \/ JobIncrement \/ JobSetStatus \/ JobNext \/ JobReturn


\* ------------------------------------------- claim_card_for_channel tokens
Handlers == {"h1"}

TokIdle ==
    [pc |-> "idle", member_id |-> 0, session |-> 0, token_data |-> NoTokenData,
     access_token |-> 0, refreshed |-> FALSE, attempts |-> 0, result |-> "none"]

TokEnd(h, result) ==
    tok' = [tok EXCEPT ![h].pc = "done", ![h].result = result]

\* the session row youtube_callback stores for a token pair
StoredSession(member, token_data, t) ==
    NewSession(member,
               into_bytes(token_data.access_token),
               IF token_data.refresh_token = Null THEN NoBytes
               ELSE into_bytes(token_data.refresh_token),
               token_data.expires_at, t)

\* youtube_callback: code exchange, member upsert, session insert
Login(users) ==
    /\ Len(sessions) < MaxSessions
    /\ tokensIssued < MaxSessions + MaxRefreshes
    /\ \E yt \in users, with_refresh_token \in BOOLEAN, dbok \in BOOLEAN :
         LET token_data == exchange_code(tokensIssued + 1, with_refresh_token, now)
             r == find_or_create(members, yt, CurrentDisplayName)
         IN /\ tokensIssued' = tokensIssued + 1
            /\ members' = r[1]
            /\ IF dbok
               THEN sessions' = Append(sessions, StoredSession(r[2], token_data, now))
               ELSE UNCHANGED sessions
    /\ UNCHANGED <<cards, now, ticks, walletMinted, calls, loc, jobv, streak, pollv, tok, sidev>>

\* claim_card_for_channel: load the member and the most recent session
HandlerLoad(h) ==
    /\ tok[h].pc = "idle"
    /\ \E m \in DOMAIN members, dbok \in BOOLEAN :
         LET found == find_by_member_id(sessions, m)
         IN IF ~dbok THEN TokEnd(h, "DatabaseError")
            ELSE IF found = {} THEN TokEnd(h, "Unauthorized")
            ELSE \E id \in found :
                   LET session == sessions[id]
                   IN IF is_expired(session, now)
                      THEN IF ~from_utf8(session.refresh_token).ok
                           THEN tok' = [tok EXCEPT ![h].pc = "done",
                                                   ![h].member_id = m,
                                                   ![h].result = "SessionError"]
                           ELSE tok' = [tok EXCEPT ![h].pc = "refresh",
                                                   ![h].member_id = m,
                                                   ![h].session = id]
                      ELSE IF ~from_utf8(session.access_token).ok
                           THEN TokEnd(h, "SessionError")
                           ELSE tok' = [tok EXCEPT
                                          ![h].pc = "use",
                                          ![h].member_id = m,
                                          ![h].session = id,
                                          ![h].access_token =
                                              from_utf8(session.access_token).tok]
    /\ UNCHANGED <<cards, members, now, ticks, walletMinted, calls, loc, jobv, streak,
                   pollv, sessions, tokensIssued, sidev>>

\* the refresh exchange with the provider
HandlerRefresh(h) ==
    /\ tok[h].pc = "refresh"
    /\ \E ok \in BOOLEAN, rotated \in RefreshTokenRotation :
         IF ok /\ tokensIssued < Len(sessions) + MaxRefreshes
         THEN /\ tokensIssued' = tokensIssued + 1
              /\ tok' = [tok EXCEPT
                           ![h].pc = "update_tokens",
                           ![h].attempts = @ + 1,
                           ![h].token_data =
                               refresh_access_token(
                                   from_utf8(sessions[tok[h].session].refresh_token).tok,
                                   tokensIssued + 1, rotated, now)]
         ELSE /\ tok' = [tok EXCEPT ![h].pc = "done", ![h].attempts = @ + 1,
                                    ![h].result = "SessionError"]
              /\ UNCHANGED tokensIssued
    /\ UNCHANGED <<cards, members, now, ticks, walletMinted, calls, loc, jobv, streak,
                   pollv, sessions, sidev>>

\* store the new tokens and update the local copy of the session
HandlerUpdateTokens(h) ==
    /\ tok[h].pc = "update_tokens"
    /\ \E dbok \in BOOLEAN :
         IF dbok
         THEN /\ sessions' = update_tokens(sessions, tok[h].session,
                                           into_bytes(tok[h].token_data.access_token),
                                           into_bytes(tok[h].token_data.refresh_token),
                                           tok[h].token_data.expires_at)
              /\ tok' = [tok EXCEPT ![h].pc = "use",
                                    ![h].access_token = tok[h].token_data.access_token,
                                    ![h].token_data = NoTokenData,
                                    ![h].refreshed = TRUE]
         ELSE /\ tok' = [tok EXCEPT ![h].pc = "done", ![h].result = "DatabaseError",
                                    ![h].token_data = NoTokenData]
              /\ UNCHANGED sessions
    /\ UNCHANGED <<cards, members, now, ticks, walletMinted, calls, loc, jobv, streak,
                   pollv, tokensIssued, sidev>>

\* the access token is handed to issue_card and used for its proof check
HandlerUse(h) ==
    /\ tok[h].pc = "use"
    /\ TokEnd(h, "Used")
    /\ UNCHANGED <<cards, members, now, ticks, walletMinted, calls, loc, jobv, streak,
                   pollv, sessions, tokensIssued, sidev>>

\* the request ends
HandlerReturn(h) ==
    /\ tok[h].pc = "done"
    /\ tok' = [tok EXCEPT ![h] = TokIdle]
    /\ UNCHANGED <<cards, members, now, ticks, walletMinted, calls, loc, jobv, streak,
                   pollv, sessions, tokensIssued, sidev>>

HandlerStep(h) ==
    \/ HandlerLoad(h) \/ HandlerRefresh(h) \/ HandlerUpdateTokens(h)
    \/ HandlerUse(h) \/ HandlerReturn(h)

\* the session youtube_callback stored at day 0 for access token number k
IssuedSession(m, k) == StoredSession(m, exchange_code(k, TRUE, 0), 0)

\* ------------------------------------------------------- poll_credential
PollProcs == {"q1", "q2"}

NoCid == "none"

\* the credential id the wallet issues for transaction tx
CidOf(tx) == IF tx = 1 THEN "cid1" ELSE "cid2"

\* A JWT is its three dot-separated parts; the payload part is given by its
\* decoded content, the jti claim by its '/'-separated segments.
Opaque == [kind |-> "opaque", jti |-> <<>>]
JwtFor(tx) ==
    <<Opaque,
      [kind |-> "claims", jti |-> <<"https:", "", "host", "api", "credential", CidOf(tx)>>],
      Opaque>>
JwtTrailingSlash ==
    <<Opaque,
      [kind |-> "claims", jti |-> <<"https:", "", "host", "api", "credential", "">>],
      Opaque>>
JwtTwoParts == <<Opaque, Opaque>>
NoJwt == <<>>

\* variant: the final segment is returned without the emptiness check
extract_cid_from_jwt_unchecked_segment(jwt) ==
    IF Len(jwt) # 3 THEN [ok |-> FALSE, cid |-> NoCid]
    ELSE IF jwt[2].kind # "claims" THEN [ok |-> FALSE, cid |-> NoCid]
    ELSE [ok |-> TRUE, cid |-> jwt[2].jti[Len(jwt[2].jti)]]

\* wallet_qr::extract_cid_from_jwt
extract_cid_from_jwt(jwt) ==
    IF Len(jwt) # 3 THEN [ok |-> FALSE, cid |-> NoCid]
    ELSE IF jwt[2].kind # "claims" THEN [ok |-> FALSE, cid |-> NoCid]
    ELSE LET cid == jwt[2].jti[Len(jwt[2].jti)]
         IN IF cid = "" THEN [ok |-> FALSE, cid |-> NoCid]
            ELSE [ok |-> TRUE, cid |-> cid]

\* Answers of GET /api/credential/nonce/{transactionId}
PollResponses(tx) ==
    {[kind |-> "transport", status |-> 0, code |-> "", credential |-> NoJwt],
     [kind |-> "http", status |-> 500, code |-> "other", credential |-> NoJwt],
     [kind |-> "http", status |-> 200, code |-> "", credential |-> NoJwt]}
    \cup (IF tx \in scanned
          THEN {[kind |-> "http", status |-> 200, code |-> "", credential |-> j] :
                   j \in {JwtFor(tx), JwtTrailingSlash, JwtTwoParts}}
          ELSE {[kind |-> "http", status |-> 404, code |-> "", credential |-> NoJwt],
                [kind |-> "http", status |-> 400, code |-> "61010", credential |-> NoJwt],
                [kind |-> "http", status |-> 500, code |-> "61010", credential |-> NoJwt],
                [kind |-> "http", status |-> 200, code |-> "61010", credential |-> NoJwt]})

\* variant: code 61010 is looked for on error statuses only
poll_credential_status_error_status_only(resp) ==
    IF resp.kind = "transport" THEN [kind |-> "HttpError", credential |-> NoJwt]
    ELSE IF ~(resp.status >= 200 /\ resp.status <= 299)
         THEN IF resp.status = 404 \/ resp.code = "61010"
              THEN [kind |-> "CredentialNotReady", credential |-> NoJwt]
              ELSE [kind |-> "ApiError", credential |-> NoJwt]
    ELSE IF resp.credential = NoJwt
         THEN [kind |-> "ApiError", credential |-> NoJwt]
    ELSE [kind |-> "Ok", credential |-> resp.credential]

\* wallet_qr::poll_credential_status
poll_credential_status(resp) ==
    IF resp.kind = "transport" THEN [kind |-> "HttpError", credential |-> NoJwt]
    ELSE IF ~(resp.status >= 200 /\ resp.status <= 299)
         THEN IF resp.status = 404 \/ resp.code = "61010"
              THEN [kind |-> "CredentialNotReady", credential |-> NoJwt]
              ELSE [kind |-> "ApiError", credential |-> NoJwt]
    ELSE IF resp.code = "61010"
         THEN [kind |-> "CredentialNotReady", credential |-> NoJwt]
    ELSE IF resp.credential = NoJwt
         THEN [kind |-> "ApiError", credential |-> NoJwt]
    ELSE [kind |-> "Ok", credential |-> resp.credential]

\* WalletQrCode::find_active_by_card_id: the matching row ids
find_active_by_card_id(rows, card_id) ==
    {r \in DOMAIN rows : rows[r].card_id = card_id /\ rows[r].is_active}

\* WalletQrCode::mark_as_scanned
mark_as_scanned(rows, id, cid, t) ==
    [rows EXCEPT ![id].cid = cid, ![id].scanned_at = t]

NoPollResponse == [kind |-> "none", status |-> 0, code |-> "", credential |-> NoJwt]

PollIdle ==
    [pc |-> "idle", card_id |-> 0, row |-> 0, tx |-> 0, cid |-> NoCid,
     api_calls |-> 0, resp |-> NoPollResponse, result |-> "none"]

\* CardsError::into_response and the Ok answers, as HTTP status
into_response(result) ==
    CASE result \in {"ready", "ready_stored"} -> 200
      [] result = "DatabaseError" -> 500
      [] result = "NotFound" -> 404
      [] result = "CredentialNotReady" -> 202
      [] OTHER -> 400

PollEnd(q, result) ==
    poll' = [poll EXCEPT ![q].pc = "done", ![q].result = result]

\* WalletQrCode::create for the wallet transaction of a card: deactivates
\* the active rows of the card and inserts the new one
WalletQrCodeCreate ==
    /\ Len(walletQrCodes) < MaxQrRows
    /\ \E c \in DOMAIN cards :
         /\ cards[c].wallet_transaction_id # Null
         /\ walletQrCodes' =
              Append([r \in DOMAIN walletQrCodes |->
                        IF walletQrCodes[r].card_id = c
                        THEN [walletQrCodes[r] EXCEPT !.is_active = FALSE]
                        ELSE walletQrCodes[r]],
                     [card_id |-> c,
                      transaction_id |-> cards[c].wallet_transaction_id,
                      cid |-> NoCid, scanned_at |-> Null, is_active |-> TRUE])
    /\ UNCHANGED <<cards, members, now, ticks, walletMinted, calls, loc, jobv,
                   streak, scanned, poll, tokv, sidev>>

\* the holder scans the QR of a minted transaction with the wallet app
WalletScan ==
    /\ \E tx \in 1..walletMinted :
         /\ tx \notin scanned
         /\ scanned' = scanned \cup {tx}
    /\ UNCHANGED <<cards, members, now, ticks, walletMinted, calls, loc, jobv,
                   streak, walletQrCodes, poll, tokv, sidev>>

\* poll_credential: load the card and check that it belongs to the member
PollFindCard(q) ==
    /\ poll[q].pc = "idle"
    /\ \E id \in 1..(Len(cards) + 1), session_member \in DOMAIN members,
          dbok \in BOOLEAN :
         IF ~dbok THEN PollEnd(q, "DatabaseError")
         ELSE IF id \notin DOMAIN cards THEN PollEnd(q, "NotFound")
         ELSE IF cards[id].member_id # session_member THEN PollEnd(q, "NotFound")
         ELSE poll' = [poll EXCEPT ![q].pc = "find_qr", ![q].card_id = id]
    /\ UNCHANGED <<cards, members, now, ticks, walletMinted, calls, loc, jobv,
                   streak, walletQrCodes, scanned, tokv, sidev>>

\* load the active wallet QR row; answer from it when the id is stored
PollFindQr(q) ==
    /\ poll[q].pc = "find_qr"
    /\ \E dbok \in BOOLEAN :
         LET found == find_active_by_card_id(walletQrCodes, poll[q].card_id)
         IN IF ~dbok THEN PollEnd(q, "DatabaseError")
            ELSE IF found = {} THEN PollEnd(q, "NoActiveWalletQr")
            ELSE \E r \in found :
                   IF walletQrCodes[r].cid # NoCid
                   THEN poll' = [poll EXCEPT ![q].pc = "done",
                                             ![q].row = r,
                                             ![q].cid = walletQrCodes[r].cid,
                                             ![q].result = "ready_stored"]
                   ELSE \E issuer_api_url_set \in BOOLEAN :
                          IF ~issuer_api_url_set THEN PollEnd(q, "ApiError")
                          ELSE poll' = [poll EXCEPT
                                          ![q].pc = "poll_api",
                                          ![q].row = r,
                                          ![q].tx = walletQrCodes[r].transaction_id]
    /\ UNCHANGED <<cards, members, now, ticks, walletMinted, calls, loc, jobv,
                   streak, walletQrCodes, scanned, tokv, sidev>>

\* poll the wallet API and extract the credential id from the JWT
PollApi(q) ==
    /\ poll[q].pc = "poll_api"
    /\ \E resp \in PollResponses(poll[q].tx) :
         LET r == poll_credential_status(resp)
             x == extract_cid_from_jwt(r.credential)
             l == [poll EXCEPT ![q].resp = resp, ![q].api_calls = @ + 1]
         IN IF r.kind # "Ok"
            THEN poll' = [l EXCEPT ![q].pc = "done", ![q].result = r.kind]
            ELSE IF ~x.ok
            THEN poll' = [l EXCEPT ![q].pc = "done", ![q].result = "InvalidJwt"]
            ELSE poll' = [l EXCEPT ![q].pc = "mark", ![q].cid = x.cid]
    /\ UNCHANGED <<cards, members, now, ticks, walletMinted, calls, loc, jobv,
                   streak, walletQrCodes, scanned, tokv, sidev>>

\* store the credential id
PollMark(q) ==
    /\ poll[q].pc = "mark"
    /\ \E dbok \in BOOLEAN :
         IF dbok
         THEN /\ walletQrCodes' = mark_as_scanned(walletQrCodes, poll[q].row,
                                                  poll[q].cid, now)
              /\ PollEnd(q, "ready")
         ELSE /\ PollEnd(q, "DatabaseError")
              /\ UNCHANGED walletQrCodes
    /\ UNCHANGED <<cards, members, now, ticks, walletMinted, calls, loc, jobv,
                   streak, scanned, tokv, sidev>>

\* the poll request ends
PollReturn(q) ==
    /\ poll[q].pc = "done"
    /\ poll' = [poll EXCEPT ![q] = PollIdle]
    /\ UNCHANGED <<cards, members, now, ticks, walletMinted, calls, loc, jobv,
                   streak, walletQrCodes, scanned, tokv, sidev>>

PollStep(q) ==
    \/ PollFindCard(q) \/ PollFindQr(q) \/ PollApi(q) \/ PollMark(q)
    \/ PollReturn(q)

\* ------------------------------------------- Member::find_or_create, by step
\* The calls of find_or_create made by youtube_callback and by issue_card,
\* one action per statement sent to the database.
MemberCallers == {"m1", "m2"}

\* the unique key of the members table on youtube_user_id: TRUE when a row
\* with this user id can be inserted
members_youtube_user_id_key(ms, yt) == FindMemberByYt(ms, yt) = {}

NoMemberResult == [kind |-> "none", id |-> 0]

UpIdle == [pc |-> "idle"]

UpEnd(c, kind, id) ==
    up' = [up EXCEPT ![c].pc = "done", ![c].result = [kind |-> kind, id |-> id]]

MemberFrame ==
    UNCHANGED <<cards, now, ticks, walletMinted, calls, loc, jobv, streak, pollv,
                tokv, verv, retry, fn>>

\* a caller enters find_or_create with the data of an upstream profile
MemberStart(c) ==
    /\ up[c].pc = "idle"
    /\ \E yt \in YtUsers, display_name \in DisplayNames :
         up' = [up EXCEPT ![c] = [pc |-> "find", yt |-> yt,
                                  display_name |-> display_name,
                                  existing |-> 0, result |-> NoMemberResult]]
    /\ UNCHANGED members
    /\ MemberFrame

\* find_by_youtube_user_id; fetch_optional yields one of the matching rows
MemberFind(c) ==
    /\ up[c].pc = "find"
    /\ \E dbok \in BOOLEAN :
         IF ~dbok THEN UpEnd(c, "DatabaseError", 0)
         ELSE IF FindMemberByYt(members, up[c].yt) = {}
              THEN up' = [up EXCEPT ![c].pc = "create"]
              ELSE \E id \in FindMemberByYt(members, up[c].yt) :
                     up' = [up EXCEPT ![c].pc = "update", ![c].existing = id]
    /\ UNCHANGED members
    /\ MemberFrame

\* update_profile of the row found
MemberUpdateProfile(c) ==
    /\ up[c].pc = "update"
    /\ \E dbok \in BOOLEAN :
         IF dbok
         THEN /\ members' = update_profile(members, up[c].existing,
                                           up[c].display_name)
              /\ up' = [up EXCEPT ![c].pc = "reload"]
         ELSE /\ UpEnd(c, "DatabaseError", 0)
              /\ UNCHANGED members
    /\ MemberFrame

\* find_by_id of the row found
MemberReload(c) ==
    /\ up[c].pc = "reload"
    /\ \E dbok \in BOOLEAN :
         IF ~dbok THEN UpEnd(c, "DatabaseError", 0)
         ELSE IF up[c].existing \in DOMAIN members
              THEN UpEnd(c, "Ok", up[c].existing)
              ELSE UpEnd(c, "RowNotFound", 0)
    /\ UNCHANGED members
    /\ MemberFrame

\* Member::create: the INSERT, refused by the unique key when a row with the
\* user id has been inserted in the meantime
MemberCreate(c) ==
    /\ up[c].pc = "create"
    /\ \E dbok \in BOOLEAN :
         IF ~dbok
         THEN /\ UpEnd(c, "DatabaseError", 0)
              /\ UNCHANGED members
         ELSE IF ~members_youtube_user_id_key(members, up[c].yt)
              THEN /\ UpEnd(c, "UniqueViolation", 0)
                   /\ UNCHANGED members
              ELSE /\ members' = Append(members,
                                        NewMember(up[c].yt, up[c].display_name))
                   /\ UpEnd(c, "Ok", Len(members) + 1)
    /\ MemberFrame

MemberReturn(c) ==
    /\ up[c].pc = "done"
    /\ up' = [up EXCEPT ![c] = UpIdle]
    /\ UNCHANGED members
    /\ MemberFrame

MemberStep(c) ==
    \/ MemberStart(c) \/ MemberFind(c) \/ MemberUpdateProfile(c)
    \/ MemberReload(c) \/ MemberCreate(c) \/ MemberReturn(c)

\* ------------------------------------------------------- retry_youtube_api
\* Two requests may look a channel up at the same time.
RetryCallers == {"r1", "r2"}

MAX_ATTEMPTS == 3
INITIAL_DELAY_MS == 1000

\* what one call of the wrapped operation (the closure of fetch_channel_info)
\* yields: Ok, or an error of YouTubeChannelError
NoError == [kind |-> "none", status |-> 0]
ApiError(status) == [kind |-> "ApiError", status |-> status]
OperationOutcomes ==
    {[kind |-> "Ok", status |-> 200], [kind |-> "NotFound", status |-> 200],
     [kind |-> "HttpError", status |-> 0]}
    \cup {ApiError(status) : status \in {403, 429, 500, 503}}

\* variant: every server error is retried
is_retryable_any_5xx(e) == e.kind = "ApiError" /\ e.status \in {429, 500, 503}

\* ApiError(msg) with msg starting "HTTP 429" or "HTTP 503"
is_retryable(e) == e.kind = "ApiError" /\ e.status \in {429, 503}

\* INITIAL_DELAY_MS * 2_u64.pow(attempt - 1)
delay_ms(attempt) == INITIAL_DELAY_MS * 2 ^ (attempt - 1)

\* the error returned once no further attempt is made
final_error(e, attempt) ==
    IF attempt >= MAX_ATTEMPTS /\ e = ApiError(429)
    THEN [kind |-> "RateLimitExceeded", status |-> 0]
    ELSE IF attempt >= MAX_ATTEMPTS /\ e = ApiError(503)
         THEN [kind |-> "ServiceUnavailable", status |-> 0]
         ELSE e

RetryIdle == [pc |-> "idle"]

\* the locals at the entry of the loop
RetryEntered ==
    [pc |-> "loop", attempt |-> 0, outcomes |-> <<>>, slept |-> <<>>,
     result |-> NoError]

RetryFrame ==
    UNCHANGED <<cards, members, now, ticks, walletMinted, calls, loc, jobv,
                streak, pollv, tokv, verv, up, fn>>

\* fetch_channel_info enters retry_youtube_api: attempt = 0; the result of
\* an earlier call has been taken by its caller
RetryStart(r) ==
    /\ retry[r].pc \in {"idle", "done"}
    /\ retry' = [retry EXCEPT ![r] = RetryEntered]
    /\ RetryFrame

\* one turn of the loop up to its return or its sleep
RetryAttempt(r) ==
    /\ retry[r].pc = "loop"
    /\ \E e \in OperationOutcomes :
         LET attempt == retry[r].attempt + 1
             called == [retry[r] EXCEPT !.attempt = attempt,
                                        !.outcomes = Append(@, e)]
         IN IF e.kind = "Ok"
            THEN retry' = [retry EXCEPT ![r] = [called EXCEPT !.pc = "done",
                                                              !.result = e]]
            ELSE IF ~is_retryable(e) \/ attempt >= MAX_ATTEMPTS
                 THEN retry' = [retry EXCEPT ![r] =
                                  [called EXCEPT !.pc = "done",
                                                 !.result = final_error(e, attempt)]]
                 ELSE retry' = [retry EXCEPT ![r] = [called EXCEPT !.pc = "sleep"]]
    /\ RetryFrame

\* sleep(Duration::from_millis(delay_ms)) has elapsed
RetrySleep(r) ==
    /\ retry[r].pc = "sleep"
    /\ retry' = [retry EXCEPT ![r].pc = "loop",
                              ![r].slept = Append(@, delay_ms(retry[r].attempt))]
    /\ RetryFrame

RetryStep(r) ==
    RetryStart(r) \/ RetryAttempt(r) \/ RetrySleep(r)

\* ---------------------------------------------------------- signature.rs
Payloads == {"p1", "p2"}
SigningKeys == {"k1", "k2"}

\* hmac::sign of ring, as an ideal MAC: a tag of two bytes that differs
\* whenever the key or the payload differs
hmac_sign(key, payload) ==
    <<IF key = "k1" THEN 171 ELSE 18, IF payload = "p1" THEN 205 ELSE 52>>

\* hmac::verify: the tag of the payload under the key equals the bytes given
hmac_verify(key, payload, signature_bytes) ==
    signature_bytes = hmac_sign(key, payload)

LowerHex == <<"0", "1", "2", "3", "4", "5", "6", "7", "8", "9",
              "a", "b", "c", "d", "e", "f">>
UpperHex == <<"0", "1", "2", "3", "4", "5", "6", "7", "8", "9",
              "A", "B", "C", "D", "E", "F">>

RECURSIVE hex_encode(_)
\* hex::encode: two lower-case digits per byte
hex_encode(bytes) ==
    IF bytes = <<>> THEN <<>>
    ELSE <<LowerHex[(Head(bytes) \div 16) + 1], LowerHex[(Head(bytes) % 16) + 1]>>
         \o hex_encode(Tail(bytes))

\* the value of one hex digit of either case, Null for any other character
hex_val(c) ==
    IF \E i \in 1..16 : LowerHex[i] = c \/ UpperHex[i] = c
    THEN (CHOOSE i \in 1..16 : LowerHex[i] = c \/ UpperHex[i] = c) - 1
    ELSE Null

RECURSIVE hex_decode_pairs(_)
hex_decode_pairs(s) ==
    IF s = <<>> THEN <<>>
    ELSE <<hex_val(s[1]) * 16 + hex_val(s[2])>> \o hex_decode_pairs(Tail(Tail(s)))

\* hex::decode: an error for an odd length or a character that is no hex
\* digit, the bytes otherwise
hex_decode(s) ==
    IF Len(s) % 2 # 0 \/ \E i \in DOMAIN s : hex_val(s[i]) = Null
    THEN [ok |-> FALSE, bytes |-> <<>>]
    ELSE [ok |-> TRUE, bytes |-> hex_decode_pairs(s)]

sign(payload, key) == hex_encode(hmac_sign(key, payload))

verify(payload, signature_hex, key) ==
    IF ~hex_decode(signature_hex).ok THEN "InvalidFormat"
    ELSE IF hmac_verify(key, payload, hex_decode(signature_hex).bytes)
         THEN "Ok(true)" ELSE "Ok(false)"

\* characters a signature character may be replaced by
TamperChars == {"0", "7", "a", "A", "c", "C", "g", "!"}

SigIdle ==
    [pc |-> "idle", payload |-> "p1", key |-> "k1", signed |-> <<>>,
     signature_hex |-> <<>>, vpayload |-> "p1", vkey |-> "k1", result |-> "none"]

\* no function is being applied
FnIdle == [pc |-> "idle"]

FnFrame ==
    UNCHANGED <<cards, members, now, ticks, walletMinted, calls, loc, jobv,
                streak, pollv, tokv, verv, up, retry>>

\* sign(payload, key)
SigSign ==
    /\ fn.pc \in {"idle", "verified"}
    /\ \E payload \in Payloads, key \in SigningKeys :
         fn' = [SigIdle EXCEPT !.pc = "signed",
                               !.payload = payload, !.key = key,
                               !.signed = sign(payload, key),
                               !.signature_hex = sign(payload, key)]
    /\ FnFrame

\* the signature is changed on its way: one character replaced, or the last
\* one lost
SigTamper ==
    /\ fn.pc = "signed"
    /\ \/ \E i \in DOMAIN fn.signature_hex, c \in TamperChars :
            /\ c # fn.signature_hex[i]
            /\ fn' = [fn EXCEPT !.pc = "tampered",
                                !.signature_hex = [@ EXCEPT ![i] = c]]
       \/ fn' = [fn EXCEPT !.pc = "tampered",
                           !.signature_hex =
                               SubSeq(@, 1, Len(fn.signature_hex) - 1)]
    /\ FnFrame

\* verify(payload, signature_hex, key)
SigVerify ==
    /\ fn.pc \in {"signed", "tampered"}
    /\ \E payload \in Payloads, key \in SigningKeys :
         fn' = [fn EXCEPT !.pc = "verified", !.vpayload = payload,
                          !.vkey = key,
                          !.result = verify(payload, fn.signature_hex, key)]
    /\ FnFrame

\* --------------------------------------------- extract_cid_from_jwt, alone
\* Parts a token may be made of. The header and the signature part are never
\* decoded; the payload part is base64url of a JSON object with a jti string,
\* or fails to be so at one of the three steps.
Forged == [kind |-> "forged", jti |-> <<>>]
JwtHeaders == {Opaque, Forged}
JwtSignatures == {Opaque, Forged}
JtiValues ==
    {<<"https:", "", "host", "api", "credential", "cid1">>,
     <<"https:", "", "host", "api", "credential", "cid2">>,
     <<"https:", "", "host", "api", "credential", "">>,
     <<"cid1">>, <<"">>}
JwtPayloads ==
    {[kind |-> k, jti |-> <<>>] : k \in {"opaque", "notbase64", "notjson", "nojti"}}
    \cup {[kind |-> "claims", jti |-> j] : j \in JtiValues}
JwtTokens ==
    {<<h>> : h \in JwtHeaders}
    \cup {<<h, p>> : h \in JwtHeaders, p \in JwtPayloads}
    \cup {<<h, p, s>> : h \in JwtHeaders, p \in JwtPayloads, s \in JwtSignatures}
    \cup {<<h, p, s, Opaque>> : h \in JwtHeaders, p \in JwtPayloads, s \in JwtSignatures}

JwtIdle == [pc |-> "idle", jwt_token |-> NoJwt, result |-> [ok |-> FALSE, cid |-> NoCid]]

\* a token arrives
JwtReceive ==
    /\ fn.pc \in {"idle", "jwt_extracted"}
    /\ \E jwt_token \in JwtTokens :
         fn' = [JwtIdle EXCEPT !.pc = "jwt_received", !.jwt_token = jwt_token]
    /\ FnFrame

\* extract_cid_from_jwt(jwt_token)
JwtExtract ==
    /\ fn.pc = "jwt_received"
    /\ fn' = [fn EXCEPT !.pc = "jwt_extracted",
                        !.result = extract_cid_from_jwt(fn.jwt_token)]
    /\ FnFrame

\* --------------------------------- extract_comment_and_video_id, on inputs
\* An input is its characters and, when it is a link, the pairs of its query
\* string. Typed text is up to two characters; a link is a scheme, "://", a
\* host and a query of up to two pairs.
TextChars == {"a", "9", "-", "_", " ", ":"}
BareChars == {"a", "9", "-", "_"}
TextInputs ==
    {[chars |-> c, query |-> <<>>] :
        c \in {<<>>} \cup {<<x>> : x \in TextChars}
              \cup {<<x, y>> : x \in TextChars, y \in TextChars}}
QueryPairs ==
    {[key |-> "lc", value |-> <<"C">>], [key |-> "lc", value |-> <<"D">>],
     [key |-> "v", value |-> <<"V">>], [key |-> "v", value |-> <<"W">>],
     [key |-> "t", value |-> <<"9">>]}
LinkInputs ==
    {[chars |-> <<"a", ":", "/", "/", "a">>, query |-> q] :
        q \in {<<>>} \cup {<<x>> : x \in QueryPairs}
              \cup {<<x, y>> : x \in QueryPairs, y \in QueryPairs}}
ReferenceInputs == TextInputs \cup LinkInputs

\* Url::parse succeeds on an input that starts with a scheme and ':'
UrlParses(input) ==
    Len(input.chars) >= 2 /\ input.chars[1] = "a" /\ input.chars[2] = ":"

None == [some |-> FALSE, value |-> <<>>]
Some(value) == [some |-> TRUE, value |-> value]

RECURSIVE LastValue(_, _, _)
\* the loop over url.query_pairs(): the value of the last pair with the key
LastValue(query, key, found) ==
    IF query = <<>> THEN found
    ELSE LastValue(Tail(query), key,
                   IF Head(query).key = key THEN Some(Head(query).value) ELSE found)

\* variant: any parsed link yields a comment id, lc parameter or not
parse_reference_lc_optional(input) ==
    IF \A i \in DOMAIN input.chars : input.chars[i] \in BareChars
    THEN [ok |-> TRUE, comment_id |-> input.chars, video_id |-> None]
    ELSE IF UrlParses(input)
         THEN [ok |-> TRUE, comment_id |-> LastValue(input.query, "lc", None).value,
               video_id |-> LastValue(input.query, "v", None)]
         ELSE [ok |-> FALSE, comment_id |-> <<>>, video_id |-> None]

\* extract_comment_and_video_id, character by character and pair by pair
parse_reference(input) ==
    IF \A i \in DOMAIN input.chars : input.chars[i] \in BareChars
    THEN [ok |-> TRUE, comment_id |-> input.chars, video_id |-> None]
    ELSE IF UrlParses(input) /\ LastValue(input.query, "lc", None).some
         THEN [ok |-> TRUE, comment_id |-> LastValue(input.query, "lc", None).value,
               video_id |-> LastValue(input.query, "v", None)]
         ELSE [ok |-> FALSE, comment_id |-> <<>>, video_id |-> None]

RefIdle ==
    [pc |-> "idle", input |-> [chars |-> <<>>, query |-> <<>>],
     result |-> [ok |-> FALSE, comment_id |-> <<>>, video_id |-> None]]

\* a member submits a reference
RefSubmit ==
    /\ fn.pc \in {"idle", "ref_extracted"}
    /\ \E input \in ReferenceInputs :
         fn' = [RefIdle EXCEPT !.pc = "ref_submitted", !.input = input]
    /\ FnFrame

\* extract_comment_and_video_id(input)
RefExtract ==
    /\ fn.pc = "ref_submitted"
    /\ fn' = [fn EXCEPT !.pc = "ref_extracted",
                        !.result = parse_reference(fn.input)]
    /\ FnFrame

\* -------------------------------------------------- sanitized display name
\* Characters are Unicode code points.  The author display names tried are
\* up to two characters out of: a, Z, 7, _, space, -, e with acute accent,
\* ARABIC-INDIC DIGIT NINE, HIRAGANA LETTER A, the ideograph U+4E2D and an
\* emoji.
NameChars == {97, 90, 55, 95, 32, 45, 233, 1641, 12354, 20013, 128512}
AuthorDisplayNames ==
    {<<>>} \cup {<<x>> : x \in NameChars}
           \cup {<<x, y>> : x \in NameChars, y \in NameChars}

\* char::is_alphanumeric of the standard library: the Unicode properties
\* Alphabetic and Numeric, on the blocks the characters above come from
is_alphanumeric(c) ==
    \/ c \in 48..57 \/ c \in 65..90 \/ c \in 97..122
    \/ c \in 192..214 \/ c \in 216..246 \/ c \in 248..255
    \/ c \in 1632..1641
    \/ c \in 12353..12438
    \/ c \in 19968..40959

\* the closure passed to filter
name_filter(c) == is_alphanumeric(c) \/ c = 95 \/ (c >= 19968 /\ c <= 40959)

\* "Member"
MemberLiteral == <<77, 101, 109, 98, 101, 114>>

\* the display_name that issue_card puts into the "name" field
sanitized_display_name(author_display_name) ==
    LET sanitized_name == SelectSeq(author_display_name, name_filter)
    IN IF sanitized_name = <<>> THEN MemberLiteral ELSE sanitized_name

NameIdle == [pc |-> "idle", author_display_name |-> <<>>, display_name |-> <<>>]

\* the proof check returned a comment with this author display name
NameReceive ==
    /\ fn.pc \in {"idle", "name_sanitized"}
    /\ \E name \in AuthorDisplayNames :
         fn' = [NameIdle EXCEPT !.pc = "name_received", !.author_display_name = name]
    /\ FnFrame

\* issue_card builds the wallet field
NameSanitize ==
    /\ fn.pc = "name_received"
    /\ fn' = [fn EXCEPT !.pc = "name_sanitized",
                        !.display_name = sanitized_display_name(fn.author_display_name)]
    /\ FnFrame

\* -------------------------------------------------------- QR verification
\* A scanned QR payload is text: not JSON at all, JSON without a usable
\* card_id, or {"card_id": <uuid>} naming a stored card or no card.
QrPayloads ==
    {[kind |-> "garbage", card_id |-> 0], [kind |-> "no_card_id", card_id |-> 0]}
    \cup {[kind |-> "card", card_id |-> i] : i \in 1..2}

\* serde_json::from_str::<QrPayload>
parse_qr_payload(qr_payload) ==
    IF qr_payload.kind = "card"
    THEN [ok |-> TRUE, card_id |-> qr_payload.card_id]
    ELSE [ok |-> FALSE, card_id |-> 0]

\* MembershipCard::is_expired
card_is_expired(card, t) ==
    IF card.expires_at # Null THEN card.expires_at < t ELSE FALSE

\* variant: an Active card is accepted whatever its expires_at
card_status_verdict_ignores_expiry(card, t) ==
    CASE card.status = "active"    -> "Success"
      [] card.status = "revoked"   -> "CardRevoked"
      [] card.status = "expired"   -> "CardExpired"
      [] card.status = "suspended" -> "CardSuspended"
      [] OTHER                     -> "unmatched"

\* step 4 of verify_qr_payload, the match on card.status.  The match has no
\* arm for CardStatus::Deleted: no verdict is defined for such a row.
card_status_verdict(card, t) ==
    CASE card.status = "active" ->
           IF card.expires_at # Null
           THEN IF card.expires_at < t THEN "CardExpired" ELSE "Success"
           ELSE "Success"
      [] card.status = "revoked"   -> "CardRevoked"
      [] card.status = "expired"   -> "CardExpired"
      [] card.status = "suspended" -> "CardSuspended"
      [] OTHER                     -> "unmatched"

NoQrCard == [id |-> 0, status |-> "none", expires_at |-> Null]

QrIdle ==
    [pc |-> "idle", qr_payload |-> [kind |-> "garbage", card_id |-> 0],
     card |-> NoQrCard, result |-> "none"]

\* verify_qr_payload steps 1 and 2: parse the payload, look the card up
QrFindCard ==
    /\ fn.pc \in {"idle", "qr_done"}
    /\ \E qr_payload \in QrPayloads, dbok \in BOOLEAN :
         LET payload == parse_qr_payload(qr_payload)
             end(result) == fn' = [QrIdle EXCEPT !.pc = "qr_done",
                                                 !.qr_payload = qr_payload,
                                                 !.result = result]
         IN IF ~payload.ok THEN end("InvalidPayload")
            ELSE IF ~dbok THEN end("DatabaseError")
            ELSE IF payload.card_id \notin DOMAIN cards THEN end("CardNotFound")
            ELSE fn' = [QrIdle EXCEPT
                          !.pc = "qr_issuer",
                          !.qr_payload = qr_payload,
                          !.card = [id |-> payload.card_id,
                                    status |-> cards[payload.card_id].status,
                                    expires_at |-> cards[payload.card_id].expires_at]]
    /\ FnFrame

\* steps 3 and 4: load the issuer, match on the status of the row read
QrVerdict ==
    /\ fn.pc = "qr_issuer"
    /\ \E dbok \in BOOLEAN :
         IF ~dbok \/ cards[fn.card.id].issuer_id \notin IssuerIds
         THEN fn' = [fn EXCEPT !.pc = "qr_done", !.result = "DatabaseError"]
         ELSE fn' = [fn EXCEPT !.pc = "qr_done",
                               !.result = card_status_verdict(fn.card, now)]
    /\ FnFrame

\* ------------------------------------------------- verification sessions
\* OIDVP transaction ids are the numbers 1..MaxVerifications.  The table is
\* kept by transaction id; a transaction that has no row yet has status
\* "none", one whose row was deleted has status "gone" (ids are fresh UUIDs
\* and are not used again).
VTxIds == 1..MaxVerifications

HasRow(session) == session.status \notin {"none", "gone"}

NoSession == [status |-> "none"]

\* VerificationSession::create: the row is inserted as 'pending'
VerificationSessionCreate(vs, transaction_id, t) ==
    [vs EXCEPT ![transaction_id] =
        [status |-> "pending", verify_result |-> "none",
         result_description |-> "none", created_at |-> t, completed_at |-> Null]]

\* VerificationSession::update_result: UPDATE ... WHERE transaction_id = $1
update_result(vs, transaction_id, verify_result, t) ==
    IF ~HasRow(vs[transaction_id]) THEN vs
    ELSE [vs EXCEPT ![transaction_id].status = "completed",
                    ![transaction_id].verify_result =
                        IF verify_result THEN "true" ELSE "false",
                    ![transaction_id].result_description = "result",
                    ![transaction_id].completed_at = t]

\* VerificationSession::mark_expired:
\* UPDATE ... WHERE transaction_id = $1 AND status = 'pending'
mark_expired(vs, transaction_id) ==
    IF vs[transaction_id].status = "pending"
    THEN [vs EXCEPT ![transaction_id].status = "expired"]
    ELSE vs

\* VerificationSession::mark_failed: UPDATE ... WHERE transaction_id = $1
mark_failed(vs, transaction_id) ==
    IF ~HasRow(vs[transaction_id]) THEN vs
    ELSE [vs EXCEPT ![transaction_id].status = "failed",
                    ![transaction_id].result_description = "error"]

\* VerificationSession::cleanup_old_sessions: DELETE of the expired and
\* failed rows created more than 24 hours ago
cleanup_old_sessions(vs, t) ==
    [x \in DOMAIN vs |->
        IF vs[x].status \in {"expired", "failed"} /\ vs[x].created_at < t - 1
        THEN [status |-> "gone"] ELSE vs[x]]

\* One action per method; the caller and its arguments are arbitrary.
SessionFrame ==
    UNCHANGED <<cards, members, now, ticks, walletMinted, calls, loc, jobv, streak,
                pollv, tokv, verificationEvents, oidvpResults, chk, restv>>

SessionCreate ==
    /\ \E transaction_id \in VTxIds, dbok \in BOOLEAN :
         /\ verificationSessions[transaction_id].status = "none"
         /\ verificationSessions' =
              IF dbok
              THEN VerificationSessionCreate(verificationSessions, transaction_id, now)
              ELSE verificationSessions
    /\ SessionFrame

SessionUpdateResult ==
    /\ \E transaction_id \in VTxIds, verify_result \in BOOLEAN, dbok \in BOOLEAN :
         verificationSessions' =
             IF dbok
             THEN update_result(verificationSessions, transaction_id, verify_result, now)
             ELSE verificationSessions
    /\ SessionFrame

SessionMarkExpired ==
    /\ \E transaction_id \in VTxIds, dbok \in BOOLEAN :
         verificationSessions' =
             IF dbok THEN mark_expired(verificationSessions, transaction_id)
             ELSE verificationSessions
    /\ SessionFrame

SessionMarkFailed ==
    /\ \E transaction_id \in VTxIds, dbok \in BOOLEAN :
         verificationSessions' =
             IF dbok THEN mark_failed(verificationSessions, transaction_id)
             ELSE verificationSessions
    /\ SessionFrame

SessionCleanup ==
    /\ \E dbok \in BOOLEAN :
         verificationSessions' =
             IF dbok THEN cleanup_old_sessions(verificationSessions, now)
             ELSE verificationSessions
    /\ SessionFrame

SessionStep ==
    \/ SessionCreate \/ SessionUpdateResult \/ SessionMarkExpired
    \/ SessionMarkFailed \/ SessionCleanup

\* ------------------------------------------------------- check_result
CheckProcs == {"c1", "c2"}

\* Answers of POST /api/oidvp/result for a transaction whose result at the
\* verifier is r ("none" while the wallet has not presented): a status with
\* a body, or a transport failure.
OidvpResponses(r) ==
    {[kind |-> "transport", status |-> 0, body |-> "none"],
     [kind |-> "status", status |-> 500, body |-> "other"],
     [kind |-> "status", status |-> 200, body |-> "badjson"]}
    \cup (IF r = "none"
          THEN {[kind |-> "status", status |-> 404, body |-> "other"],
                [kind |-> "status", status |-> 400, body |-> "not ready"]}
          ELSE {[kind |-> "status", status |-> 200, body |-> r]})

\* oidvp_verifier::poll_verification_result
poll_verification_result(resp) ==
    CASE resp.kind = "transport" -> "HttpError"
      [] resp.status = 404       -> "NotReady"
      [] resp.status \notin 200..299 ->
             IF resp.body = "not ready" THEN "NotReady" ELSE "ApiError"
      [] resp.body = "badjson"   -> "ApiError"
      [] resp.body = "success"   -> "OkTrue"
      [] OTHER                   -> "OkFalse"

\* VerificationEvent::create_event: INSERT of one row
create_event(es, transaction_id, t) ==
    Append(es, [verification_result |-> "success",
                transaction_id |-> transaction_id,
                verified_at |-> t])

ChkIdle == [pc |-> "idle"]

\* the return of check_result; transaction 0 stands for a request that ended
\* before its transaction id was used
ChkEnd(c, result) ==
    chk' = [chk EXCEPT ![c] =
              [pc |-> "done", result |-> result,
               transaction_id |-> IF chk[c].pc = "idle" THEN 0
                                  ELSE chk[c].transaction_id]]

\* the wallet presents the credential: the result of the transaction
\* becomes available at the verifier and stays as it is
Present ==
    /\ \E transaction_id \in VTxIds, r \in {"success", "failure"} :
         /\ oidvpResults[transaction_id] = "none"
         /\ oidvpResults' = [oidvpResults EXCEPT ![transaction_id] = r]
    /\ UNCHANGED <<cards, members, now, ticks, walletMinted, calls, loc, jobv, streak,
                   pollv, tokv, verificationSessions, verificationEvents, chk, restv>>

\* check_result up to the poll: event lookup and verifier configuration
CheckFindEvent(c) ==
    /\ chk[c].pc = "idle"
    /\ Len(verificationEvents) < MaxEvents
    /\ \E transaction_id \in VTxIds, dbok \in BOOLEAN, found \in BOOLEAN,
          configured \in BOOLEAN :
         IF ~dbok THEN ChkEnd(c, "DatabaseError")
         ELSE IF ~found THEN ChkEnd(c, "EventNotFound")
         ELSE IF ~configured THEN ChkEnd(c, "ConfigError")
         ELSE chk' = [chk EXCEPT ![c] = [pc |-> "poll", result |-> "none",
                                         transaction_id |-> transaction_id]]
    /\ UNCHANGED <<cards, members, now, ticks, walletMinted, calls, loc, jobv, streak,
                   pollv, tokv, verificationSessions, verificationEvents, oidvpResults, restv>>

\* the poll of the verifier and the match on its outcome
CheckPoll(c) ==
    /\ chk[c].pc = "poll"
    /\ \E resp \in OidvpResponses(oidvpResults[chk[c].transaction_id]) :
         LET r == poll_verification_result(resp)
         IN CASE r = "OkTrue"   -> chk' = [chk EXCEPT ![c].pc = "create_event"]
              [] r = "OkFalse"  -> ChkEnd(c, "completed")
              [] r = "NotReady" -> ChkEnd(c, "pending")
              [] OTHER          -> ChkEnd(c, "OidvpError")
    /\ UNCHANGED <<cards, members, now, ticks, walletMinted, calls, loc, jobv, streak,
                   pollv, tokv, verificationSessions, verificationEvents, oidvpResults, restv>>

\* the audit row of a successful verification
CheckCreateEvent(c) ==
    /\ chk[c].pc = "create_event"
    /\ \E dbok \in BOOLEAN :
         IF dbok
         THEN /\ verificationEvents' =
                   create_event(verificationEvents, chk[c].transaction_id, now)
              /\ ChkEnd(c, "completed")
         ELSE /\ ChkEnd(c, "DatabaseError")
              /\ UNCHANGED verificationEvents
    /\ UNCHANGED <<cards, members, now, ticks, walletMinted, calls, loc, jobv, streak,
                   pollv, tokv, verificationSessions, oidvpResults, restv>>

CheckReturn(c) ==
    /\ chk[c].pc = "done"
    /\ chk' = [chk EXCEPT ![c] = ChkIdle]
    /\ UNCHANGED <<cards, members, now, ticks, walletMinted, calls, loc, jobv, streak,
                   pollv, tokv, verificationSessions, verificationEvents, oidvpResults, restv>>

CheckStep(c) ==
    \/ CheckFindEvent(c) \/ CheckPoll(c) \/ CheckCreateEvent(c) \/ CheckReturn(c)

\* the verification tables and request tasks before any request
SideInit ==
    /\ verificationSessions = [x \in VTxIds |-> NoSession]
    /\ verificationEvents = <<>>
    /\ oidvpResults = [x \in VTxIds |-> "none"]
    /\ chk = [c \in CheckProcs |-> ChkIdle]
    /\ up = [c \in MemberCallers |-> UpIdle]
    /\ retry = [r \in RetryCallers |-> RetryIdle]
    /\ fn = FnIdle

\* -------------------------------------------- issue_card, future dropped
\* The request task is abandoned while issue_card waits at an await: the
\* future is dropped, an open transaction of create is rolled back, and
\* nothing after the await runs.
Cancel(p) ==
    /\ loc[p].pc \notin {"idle", "done", "dropped"}
    /\ loc' = [loc EXCEPT ![p].pc = "dropped",
                          ![p].tx_snap = {},
                          ![p].tx_del = {},
                          ![p].tx_new = NoCard]
    /\ UNCHANGED <<cards, members, now, ticks, walletMinted, calls, jobv, streak, pollv, tokv, sidev>>

IssueStep(p, users, videos) ==
    \/ Start(p) \/ Health(p) \/ FindIssuer(p) \/ VerifyComment(p, users, videos)
    \/ UpsertMember(p) \/ Dedupe(p) \/ GenerateWalletQr(p)
    \/ TxUpdate(p) \/ TxUpdateResume(p) \/ TxInsert(p) \/ TxCommit(p)
    \/ SetWalletQr(p) \/ Reload(p) \/ Return(p)

\* the store after one successful issue_card call made at day 0
IssuedCard ==
    [NewCard("i1", 1, 0) EXCEPT
        !.wallet_transaction_id = WalletQrResponse(1).transaction_id,
        !.wallet_qr_code = WalletQrResponse(1).qr_code,
        !.wallet_deep_link = WalletQrResponse(1).deep_link]

\* issue_card run by a single request task: its UPDATE never waits for a lock
StartAlone(p) ==
    /\ calls < MaxLifeCalls
    /\ Start(p)

IssueStepAlone(p, users, videos) ==
    \/ StartAlone(p) \/ Health(p) \/ FindIssuer(p) \/ VerifyComment(p, users, videos)
    \/ UpsertMember(p) \/ Dedupe(p) \/ GenerateWalletQr(p)
    \/ TxUpdate(p) \/ TxInsert(p) \/ TxCommit(p)
    \/ SetWalletQr(p) \/ Reload(p) \/ Return(p)

\* The service starts on a database that is empty or that holds one card
\* issued earlier.
Init ==
    /\ \/ /\ cards = <<>>
          /\ members = <<>>
          /\ walletMinted = 0
          /\ streak = <<>>
          /\ sessions = <<>>
          /\ tokensIssued = 0
       \/ /\ cards = <<IssuedCard>>
          /\ members = <<NewMember("u1", CurrentDisplayName)>>
          /\ walletMinted = 1
          /\ streak = <<0>>
          /\ sessions = <<IssuedSession(1, 1)>>
          /\ tokensIssued = 1
    /\ tok = [h \in Handlers |-> TokIdle]
    /\ SideInit
    /\ now = 0
    /\ ticks = 0
    /\ calls = 0
    /\ loc = [p \in Procs |-> Idle]
    /\ job = JobIdle
    /\ walletQrCodes = <<>>
    /\ scanned = {}
    /\ poll = [q \in PollProcs |-> PollIdle]

\* concurrent issuance requests
Next == (\E p \in Procs : IssueStep(p, YtUsers, {"V"})) \/ TickCalls

Spec == Init /\ [][Next]_vars

\* the requests of one user, one at a time, next to the re-verification sweep
NextLife == IssueStepAlone("p1", {"u1"}, {"V"}) \/ JobStep \/ Tick

SpecLife == Init /\ [][NextLife]_vars

\* the requests of either user, one at a time, referring to comments on the
\* verification video or on another video
NextComment == IssueStepAlone("p1", YtUsers, CommentVideos) \/ Tick

SpecComment == Init /\ [][NextComment]_vars

InitPoll ==
    /\ cards = <<IssuedCard>>
    /\ members = <<NewMember("u1", CurrentDisplayName), NewMember("u2", CurrentDisplayName)>>
    /\ now = 0
    /\ ticks = 0
    /\ walletMinted = 1
    /\ calls = 1
    /\ loc = [p \in Procs |-> Idle]
    /\ job = JobIdle
    /\ streak = <<0>>
    /\ walletQrCodes = <<>>
    /\ scanned = {}
    /\ poll = [q \in PollProcs |-> PollIdle]
    /\ sessions = <<IssuedSession(1, 1), IssuedSession(2, 2)>>
    /\ tokensIssued = 2
    /\ tok = [h \in Handlers |-> TokIdle]
    /\ SideInit

\* concurrent poll requests for issued cards
NextPoll ==
    \/ \E q \in PollProcs : PollStep(q)
    \/ WalletQrCodeCreate \/ WalletScan \/ Tick

SpecPoll == InitPoll /\ [][NextPoll]_vars

\* the card issue_card number k stored for member m at day 0
IssuedCardOf(m, k) ==
    [NewCard("i1", m, 0) EXCEPT
        !.wallet_transaction_id = WalletQrResponse(k).transaction_id,
        !.wallet_qr_code = WalletQrResponse(k).qr_code,
        !.wallet_deep_link = WalletQrResponse(k).deep_link]

\* the store after two members were issued one card each
InitJob ==
    /\ cards = <<IssuedCardOf(1, 1), IssuedCardOf(2, 2)>>
    /\ members = <<NewMember("u1", CurrentDisplayName), NewMember("u2", CurrentDisplayName)>>
    /\ now = 0
    /\ ticks = 0
    /\ walletMinted = 2
    /\ calls = 2
    /\ loc = [p \in Procs |-> Idle]
    /\ job = JobIdle
    /\ streak = <<0, 0>>
    /\ walletQrCodes = <<>>
    /\ scanned = {}
    /\ poll = [q \in PollProcs |-> PollIdle]
    /\ sessions = <<IssuedSession(1, 1), IssuedSession(2, 2)>>
    /\ tokensIssued = 2
    /\ tok = [h \in Handlers |-> TokIdle]
    /\ SideInit

\* the re-verification sweeps alone
NextJob == JobStep \/ Tick

SpecJob == InitJob /\ [][NextJob]_vars

\* day 4: one member whose card, issued at day 0, counted 'not a member'
\* in the sweeps of day 0 and day 2, and who logged in again today
InitToken ==
    /\ cards = <<[IssuedCard EXCEPT !.verification_failures = 2,
                                   !.last_verified_at = 2]>>
    /\ members = <<NewMember("u1", CurrentDisplayName)>>
    /\ now = 4
    /\ ticks = 0
    /\ walletMinted = 1
    /\ calls = 1
    /\ loc = [p \in Procs |-> Idle]
    /\ job = JobIdle
    /\ streak = <<2>>
    /\ walletQrCodes = <<>>
    /\ scanned = {}
    /\ poll = [q \in PollProcs |-> PollIdle]
    /\ sessions = <<StoredSession(1, exchange_code(1, TRUE, 4), 4)>>
    /\ tokensIssued = 1
    /\ tok = [h \in Handlers |-> TokIdle]
    /\ SideInit

\* the clock advances while tokens are handled
TickToken ==
    /\ ticks < MaxTokenTicks
    /\ Tick

\* logins, claim requests and re-verification sweeps of one member
NextToken ==
    \/ \E h \in Handlers : HandlerStep(h)
    \/ JobStep
    \/ Login({"u1"})
    \/ TickToken

SpecToken == InitToken /\ [][NextToken]_vars

\* ===================================================================
\* Properties of issuance (specification Spec)
\* ===================================================================
Pair(c) == <<c.issuer_id, c.member_id>>

LiveCards(i, m) ==
    {c \in DOMAIN cards : /\ cards[c].issuer_id = i
                          /\ cards[c].member_id = m
                          /\ cards[c].status = "active"
                          /\ (cards[c].expires_at = Null \/ cards[c].expires_at > now)}

Failed(p) == loc[p].pc = "done" /\ loc[p].result.kind \notin {"Ok", "none"}

\* C1 -- Invariant I1 under concurrency: whatever the interleaving of
\* concurrent issue_card calls, every (issuer, member) pair has at most one
\* card that is Active and whose expires_at is null or later than now.
I1_AtMostOneLiveCard ==
    \A i \in IssuerIds, m \in DOMAIN members : Cardinality(LiveCards(i, m)) <= 1

\* C2 -- Supersession: when create commits for a pair that already has a
\* card, every earlier card of the pair is non-Active afterwards, the new
\* card is Active, and the cards of other pairs are unchanged.
Supersession ==
    [][\A p \in Procs :
         (/\ loc[p].pc = "tx_commit"
          /\ loc'[p].pc = "setqr"
          /\ \E c \in DOMAIN cards : Pair(cards[c]) = Pair(loc[p].tx_new))
         => /\ Len(cards') = Len(cards) + 1
            /\ cards'[Len(cards')].status = "active"
            /\ Pair(cards'[Len(cards')]) = Pair(loc[p].tx_new)
            /\ \A c \in DOMAIN cards :
                 IF Pair(cards[c]) = Pair(loc[p].tx_new)
                 THEN cards'[c].status # "active"
                 ELSE cards'[c] = cards[c]]_vars

\* C6 -- No partial card: when issue_card returns a failure, at whichever
\* step, the store holds no card row created by that call and the call has
\* changed the status of no earlier card.
NoPartialCard ==
    \A p \in Procs : Failed(p) => loc[p].card_id = 0 /\ loc[p].superseded = {}

\* C7 -- Fail-fast ordering: when the health probe fails (5xx status,
\* transport error, timeout) the call has ended with
\* WalletServiceUnavailable and has made no issuer lookup, proof check,
\* member upsert, wallet QR request or card write.
HealthFailed(resp) ==
    \/ resp.kind \in {"transport", "timeout"}
    \/ resp.kind = "status" /\ resp.status >= 500

FailFast ==
    \A p \in Procs :
      HealthFailed(loc[p].health)
      => /\ loc[p].pc = "done"
         /\ loc[p].result.kind = "WalletServiceUnavailable"
         /\ loc[p].ops = {"health"}
         /\ loc[p].member_id = 0
         /\ loc[p].card_id = 0
         /\ loc[p].wallet = NoWallet

FailFastWitness ==
    \E p \in Procs : /\ loc[p].pc = "done"
                     /\ loc[p].health.kind = "status"
                     /\ loc[p].health.status = 503
                     /\ loc[p].result.kind = "WalletServiceUnavailable"

\* C8 -- Duplicate rejection: if the pair has an Active unexpired card when
\* the dedupe query is answered, the call ends there with DuplicateCard
\* carrying the expiry of such a card; it requests no wallet QR, inserts no
\* card and leaves the table as it was.
DuplicateRejection ==
    [][\A p \in Procs :
         (/\ loc[p].pc = "dedupe"
          /\ loc'[p].pc # "dedupe"
          /\ loc'[p].result.kind # "DatabaseError"
          /\ LiveCards(loc[p].issuer_id, loc[p].member_id) # {})
         => /\ loc'[p].pc = "done"
            /\ loc'[p].result.kind = "DuplicateCard"
            /\ loc'[p].dup \in LiveCards(loc[p].issuer_id, loc[p].member_id)
            /\ loc'[p].result.info = cards[loc'[p].dup].expires_at
            /\ "walletqr" \notin loc'[p].ops
            /\ "create" \notin loc'[p].ops
            /\ loc'[p].card_id = 0
            /\ walletMinted' = walletMinted
            /\ cards' = cards]_vars

DuplicateRejectionWitness ==
    \E p \in Procs : /\ loc[p].pc = "done"
                     /\ loc[p].result.kind = "DuplicateCard"
                     /\ loc[p].result.info = cards[loc[p].dup].expires_at
                     /\ loc[p].dup \in LiveCards(loc[p].issuer_id, loc[p].member_id)

ReturnedOk(p) == loc[p].pc = "done" /\ loc[p].result.kind = "Ok"

ReturnedCardFields(p) ==
    LET r == loc[p].result.card.row
    IN /\ loc[p].result.card.id = loc[p].card_id
       /\ r.verification_failures = 0
       /\ r.expires_at = r.issued_at + 30
       /\ r.wallet_transaction_id = loc[p].wallet.transaction_id
       /\ r.wallet_qr_code = loc[p].wallet.qr_code
       /\ r.wallet_deep_link = loc[p].wallet.deep_link
       /\ r.wallet_transaction_id # Null
       /\ r.wallet_qr_code # Null
       /\ r.wallet_deep_link # Null
       /\ r.wallet_qr_code # r.wallet_deep_link

\* C9 -- Happy path (as claimed): a successful issue_card returns a card
\* with status Active, verification_failures = 0, expires_at = creation
\* time + 30 days and the three wallet fields returned for this call.
HappyPathAsClaimed ==
    \A p \in Procs :
      ReturnedOk(p)
      => ReturnedCardFields(p) /\ loc[p].result.card.row.status = "active"

\* ===================================================================
\* Properties of the card lifecycle (specification SpecLife)
\* ===================================================================
StatusChanged(c) == cards'[c].status # cards[c].status

\* C3 -- Card status as claimed: only an Active card changes status; a card
\* that is Expired, Revoked or Suspended (or otherwise non-Active) keeps its
\* status under every operation.
OnlyActiveChangesStatus ==
    [][\A c \in DOMAIN cards :
         cards[c].status # "active" => cards'[c].status = cards[c].status]_vars

\* C3 -- Card status (amended): a status is changed only (a) by the commit
\* of create, which sets every card of the pair that its UPDATE found with a
\* status other than Deleted -- Active or Expired alike -- to Deleted, and
\* (b) by the job's set_status(Expired) on the card it is working on, which
\* is unconditional.  No card returns to Active and an Expired card changes
\* only to Deleted.
SupersededBy(p, c) ==
    /\ loc[p].pc = "tx_commit"
    /\ loc'[p].pc = "setqr"
    /\ c \in loc[p].tx_del
    /\ Pair(cards[c]) = Pair(loc[p].tx_new)

ExpiredByJob(c) ==
    /\ job.pc = "set_status"
    /\ JobCard = c
    /\ ThresholdReached(cards[c].verification_failures)

StatusTransitions ==
    [][\A c \in DOMAIN cards :
         StatusChanged(c)
         => /\ cards'[c].status # "active"
            /\ \/ /\ cards'[c].status = "deleted"
                  /\ \E p \in Procs : SupersededBy(p, c)
               \/ /\ cards'[c].status = "expired"
                  /\ cards[c].status \in {"active", "deleted"}
                  /\ ExpiredByJob(c)]_vars

\* an Expired card (three completed negative sweeps) that a later create of
\* the same pair has set to Deleted
StatusTransitionsWitness ==
    \E c \in DOMAIN cards :
      /\ cards[c].status = "deleted"
      /\ streak[c] = 3
      /\ c \in loc["p1"].superseded

\* C4 -- Failure escalation: for a card created Active with
\* verification_failures = 0, after one and after two completed sweeps in a
\* row that answered 'not a member' the card has failures 1 and 2 and is
\* still Active; after the third it has failures = 3 and status Expired.
\* (A card that a later create of the pair superseded meanwhile is Deleted.)
JobWorkingOn(c) == job.pc \in {"increment", "set_status", "extend"} /\ JobCard = c

LaterCardOfPair(c) ==
    \E d \in DOMAIN cards : d > c /\ Pair(cards[d]) = Pair(cards[c])

FailureEscalation ==
    \A c \in DOMAIN cards :
      ~JobWorkingOn(c)
      => /\ streak[c] \in {1, 2}
            => /\ cards[c].verification_failures = streak[c]
               /\ \/ cards[c].status = "active"
                  \/ cards[c].status = "deleted" /\ LaterCardOfPair(c)
         /\ streak[c] = 3
            => /\ cards[c].verification_failures = 3
               /\ \/ cards[c].status = "expired"
                  \/ cards[c].status = "deleted" /\ LaterCardOfPair(c)
         /\ streak[c] <= 3

FailureEscalationWitness ==
    \E c \in DOMAIN cards :
      /\ streak[c] = 3
      /\ cards[c].verification_failures = 3
      /\ cards[c].status = "expired"
      /\ job.pc = "next"
      /\ job.result = "MembershipExpired"

\* C5 -- Reset on success: a re-verification that confirms membership sets
\* verification_failures to 0 whatever it was, last_verified_at to now and
\* expires_at to now + 30 days; one that answers 'not a member' raises
\* verification_failures by exactly 1 (and sets last_verified_at to now).
ResetOnSuccess ==
    [][/\ (job.pc = "extend" /\ job'.pc # "extend" /\ job'.result = "StillMember")
          => /\ cards'[JobCard].verification_failures = 0
             /\ cards'[JobCard].last_verified_at = now
             /\ cards'[JobCard].expires_at = now + 30
             /\ cards'[JobCard].status = cards[JobCard].status
             /\ \A c \in DOMAIN cards \ {JobCard} : cards'[c] = cards[c]
       /\ (job.pc = "increment" /\ job'.pc # "increment" /\ job'.result # "DatabaseError")
          => /\ cards'[JobCard].verification_failures
                  = cards[JobCard].verification_failures + 1
             /\ cards'[JobCard].last_verified_at = now
             /\ cards'[JobCard].expires_at = cards[JobCard].expires_at
             /\ \A c \in DOMAIN cards \ {JobCard} : cards'[c] = cards[c]]_vars

ResetOnSuccessWitness ==
    /\ job.pc = "next"
    /\ job.result = "StillMember"
    /\ job.prev = 2
    /\ cards[JobCard].verification_failures = 0
    /\ cards[JobCard].last_verified_at = now
    /\ cards[JobCard].expires_at = now + 30

\* ------------------------------------------------------ claims: polling
\* a poll request stores a credential id in this step
PollWrites(q) ==
    poll[q].pc = "mark" /\ poll'[q].pc = "done" /\ poll'[q].result = "ready"

\* C10: Scanned exactly once. Over any interleaving of poll_credential
\* requests the credential id and the scanned timestamp of a wallet QR row
\* are written once: a stored id and timestamp never change again, every
\* write finds the row without a credential id, and a poll that finds a
\* stored id answers from it without calling the wallet API.
ScannedExactlyOnce ==
    [][/\ \A r \in DOMAIN walletQrCodes :
            walletQrCodes[r].cid # NoCid
            => /\ walletQrCodes'[r].cid = walletQrCodes[r].cid
               /\ walletQrCodes'[r].scanned_at = walletQrCodes[r].scanned_at
       /\ \A q \in PollProcs :
            PollWrites(q) => walletQrCodes[poll[q].row].cid = NoCid
       /\ \A q \in PollProcs :
            (poll[q].pc = "find_qr" /\ poll'[q].pc = "poll_api")
            => walletQrCodes[poll'[q].row].cid = NoCid]_vars

\* C11: Not-yet-scanned polls. A poll that the wallet API answers with code
\* "61010", on an error status or in a success-status body, ends with
\* CredentialNotReady (never ApiError), is reported as HTTP 202, and leaves
\* the stored credential id and scanned timestamp of the row and the card
\* as they were (unset).
AnsweredNotReady(q) ==
    /\ poll[q].pc = "poll_api"
    /\ poll'[q].pc # "poll_api"
    /\ poll'[q].resp.code = "61010"

NotYetScannedPoll ==
    [][\A q \in PollProcs :
         AnsweredNotReady(q)
         => /\ poll'[q].pc = "done"
            /\ poll'[q].result = "CredentialNotReady"
            /\ into_response(poll'[q].result) = 202
            /\ walletQrCodes' = walletQrCodes
            /\ walletQrCodes[poll[q].row].cid = NoCid
            /\ walletQrCodes[poll[q].row].scanned_at = Null
            /\ cards' = cards
            /\ cards[poll[q].card_id].wallet_cid = Null
            /\ cards[poll[q].card_id].wallet_scanned_at = Null]_vars

NotYetScannedPollWitness ==
    \E q \in PollProcs :
      /\ poll[q].pc = "done"
      /\ poll[q].resp.status = 200
      /\ poll[q].resp.code = "61010"
      /\ poll[q].result = "CredentialNotReady"
      /\ walletQrCodes[poll[q].row].cid = NoCid

\* ------------------------------------------- claims: indeterminate checks
\* the upstream answer is neither 'member' nor 'not a member'
Indeterminate(resp) ==
    \/ resp.kind \in {"transport", "badjson"}
    \/ resp.kind = "status" /\ resp.status \notin {200, 403, 404}

NotAMemberAnswer(resp) ==
    /\ resp.kind = "status"
    /\ \/ resp.status \in {403, 404}
       \/ resp.status = 200 /\ resp.items = 0

\* C12: Indeterminate is not a negative. When the membership check of the
\* job ends in TokenExpired (HTTP 401) or any other upstream or transport
\* error, verify_single_card ends without writing the card: its
\* verification_failures, status, expires_at and last_verified_at are
\* unchanged.  A failure count is raised only by the job after a 'not a
\* member' answer.
IndeterminateIsNotNegative ==
    [][/\ (job.pc = "check" /\ job'.pc # "check" /\ Indeterminate(job'.resp))
          => /\ job'.pc = "next"
             /\ job'.result = "ApiError"
             /\ cards' = cards
       /\ \A c \in DOMAIN cards :
            cards'[c].verification_failures > cards[c].verification_failures
            => /\ job.pc = "increment"
               /\ JobCard = c
               /\ NotAMemberAnswer(job.resp)]_vars

\* a card with one counted failure whose next check ended in HTTP 401
IndeterminateIsNotNegativeWitness ==
    /\ job.pc = "next"
    /\ job.resp.status = 401
    /\ job.result = "ApiError"
    /\ cards[JobCard].verification_failures = 1
    /\ cards[JobCard].status = "active"

\* ------------------------------------------------ claims: batch isolation
StatsSum(st) ==
    st.still_members + st.expired_memberships
      + st.token_refresh_failures + st.api_errors

\* C13: Batch isolation. In one sweep every selected card is processed
\* exactly once, in turn, whatever error occurred on earlier cards: while
\* card number idx is being processed exactly idx - 1 results have been
\* counted, the position only moves from a finished card to the next one,
\* and the sweep returns Ok with total_checked equal to the number of
\* selected cards and to still_members + expired_memberships +
\* token_refresh_failures + api_errors.
BatchIsolation ==
    /\ [](/\ job.pc \notin {"idle", "done"}
             => /\ job.idx \in 1..Len(job.batch)
                /\ \A i, j \in 1..Len(job.batch) :
                      i # j => job.batch[i] # job.batch[j]
                /\ job.stats.total_checked = Len(job.batch)
                /\ StatsSum(job.stats) = job.idx - 1
          /\ (job.pc = "done" /\ job.ret = "Ok")
             => /\ job.idx = Len(job.batch)
                /\ job.stats.total_checked = Len(job.batch)
                /\ job.stats.total_checked = StatsSum(job.stats))
    /\ [][/\ (job.pc = "next" /\ job' # job)
             => job'.pc \in {"load", "done"} /\ job'.batch = job.batch
          /\ (job'.idx # job.idx /\ job'.pc # "idle")
             => \/ job.pc = "idle" /\ job'.idx = 1
                \/ job.pc = "next" /\ job'.idx = job.idx + 1]_vars

\* a sweep over two cards that ended after a failure on the first card
BatchIsolationWitness ==
    /\ job.pc = "done"
    /\ job.ret = "Ok"
    /\ Len(job.batch) = 2
    /\ job.stats.total_checked = 2
    /\ job.stats.api_errors = 1
    /\ job.stats.still_members = 1
    /\ cards[job.batch[2]].last_verified_at = now

\* ---------------------------------------------------------- claims: tokens
\* every most recent session of the member stores exactly this access token
StoreHoldsToken(member, access_token) ==
    /\ find_by_member_id(sessions, member) # {}
    /\ \A id \in find_by_member_id(sessions, member) :
         sessions[id].access_token = into_bytes(access_token)

\* C14: Token currency. Whenever the job or a claim request uses, for a
\* proof check, an access token it obtained from a refresh, the most recent
\* stored session of that member holds exactly that access token at that
\* moment, also under concurrent refreshes.
TokenCurrency ==
    [][/\ (job.pc = "check" /\ job'.pc # "check" /\ job.refreshed)
          => StoreHoldsToken(cards[JobCard].member_id, job.access_token)
       /\ \A h \in Handlers :
            (tok[h].pc = "use" /\ tok'[h].pc # "use" /\ tok[h].refreshed)
            => StoreHoldsToken(tok[h].member_id, tok[h].access_token)]_vars

\* the most recent session of the member is expired and has no usable
\* refresh token
NoRefreshToken(member) ==
    /\ find_by_member_id(sessions, member) # {}
    /\ \A id \in find_by_member_id(sessions, member) :
         /\ is_expired(sessions[id], now)
         /\ ~from_utf8(sessions[id].refresh_token).ok

\* C15: Refresh failure is reported, not retried. When the stored access
\* token is expired and the refresh exchange fails or no refresh token is
\* stored, the caller ends with a refresh failure (TokenRefreshFailed in the
\* job, SessionError in the claim request) after at most one exchange
\* attempt, without changing the stored sessions or any card and without
\* running the membership or proof check; the job counts the card under
\* token_refresh_failures and under nothing else.
RefreshFailureReported ==
    [][/\ (job.pc = "refresh" /\ job'.pc \notin {"refresh", "update_tokens"})
          => /\ job'.pc = "next" /\ job'.result = "TokenRefreshFailed"
             /\ job'.attempts = 1
             /\ sessions' = sessions /\ cards' = cards
       /\ (job.pc = "load" /\ job'.pc # "load"
              /\ NoRefreshToken(cards[JobCard].member_id)
              /\ job'.result # "DatabaseError")
          => /\ job'.pc = "next" /\ job'.result = "TokenRefreshFailed"
             /\ job'.attempts = 0
             /\ sessions' = sessions /\ cards' = cards
       /\ (job.pc = "next" /\ job' # job /\ job.result = "TokenRefreshFailed")
          => /\ job.resp = NoVideoResponse
             /\ job.attempts <= 1
             /\ job'.stats = [job.stats EXCEPT !.token_refresh_failures = @ + 1]
       /\ \A h \in Handlers :
            /\ (tok[h].pc = "refresh" /\ tok'[h].pc \notin {"refresh", "update_tokens"})
               => /\ tok'[h].pc = "done" /\ tok'[h].result = "SessionError"
                  /\ tok'[h].attempts = 1
                  /\ sessions' = sessions /\ cards' = cards
            /\ (tok[h].pc = "idle" /\ tok'[h].pc = "done"
                   /\ tok'[h].result = "SessionError")
               => /\ NoRefreshToken(tok'[h].member_id)
                  /\ tok'[h].attempts = 0
                  /\ sessions' = sessions /\ cards' = cards
            /\ (tok[h].pc = "idle" /\ NoRefreshToken(tok'[h].member_id))
               => tok'[h].pc \in {"idle", "done"}]_vars

\* the job's refresh exchange failed for a card with two counted failures
RefreshFailureReportedWitness ==
    /\ job.pc = "next"
    /\ job.result = "TokenRefreshFailed"
    /\ job.attempts = 1
    /\ is_expired(sessions[job.session], now)
    /\ cards[JobCard].verification_failures = 2
    /\ cards[JobCard].status = "active"

\* the stored bytes are the output of encrypt for some text and nonce
IsCiphertext(b) == b = encrypt(b.tok, b.nonce)

\* C16: Tokens at rest. Every access_token stored in an OAuthSession row is
\* AEAD ciphertext produced by encrypt, and every stored refresh_token is
\* either absent or such ciphertext; no row holds the plaintext token.
TokensAtRest ==
    \A id \in DOMAIN sessions :
        /\ IsCiphertext(sessions[id].access_token)
        /\ \/ sessions[id].refresh_token = NoBytes
           \/ IsCiphertext(sessions[id].refresh_token)

\* the calls that ended with CommentOwnershipMismatch wrote nothing
MismatchWroteNothing ==
    \A p \in Procs :
        (loc[p].pc = "done" /\ loc[p].result.kind = "CommentOwnershipMismatch")
        => /\ loc[p].author_channel_id \notin {"none", loc[p].yt}
           /\ loc[p].ops \cap {"upsert", "dedupe", "walletqr", "create", "setqr"} = {}

\* C17: Ownership. Every card created by issue_card for member M rests on
\* a comment whose author channel id equals M's upstream user id; when the
\* author of the fetched comment differs from the requesting user the call
\* ends with CommentOwnershipMismatch and neither a member nor a card is
\* written.
Ownership ==
    /\ []MismatchWroteNothing
    /\ [][\A p \in Procs :
            /\ (loc[p].pc = "verify" /\ loc'[p].pc # "verify"
                   /\ loc'[p].author_channel_id \notin {"none", loc'[p].yt})
               => /\ loc'[p].pc = "done"
                  /\ loc'[p].result.kind = "CommentOwnershipMismatch"
                  /\ members' = members /\ cards' = cards
            /\ (loc[p].pc = "tx_commit" /\ cards' # cards)
               => /\ loc[p].author_channel_id = loc[p].yt
                  /\ members[cards'[Len(cards')].member_id].youtube_user_id
                        = loc[p].author_channel_id]_vars

\* a card was created for u2 on a comment written by u2
OwnershipWitness ==
    /\ loc["p1"].pc = "setqr"
    /\ loc["p1"].author_channel_id = "u2"
    /\ members[cards[loc["p1"].card_id].member_id].youtube_user_id = "u2"

\* C18: Wrong video in the link. When the reference parses to a video id
\* that differs from the issuer's verification video, issue_card ends with
\* InvalidCommentId at the parse step, before any comment fetch, and writes
\* neither a member nor a card.
WrongVideoInLink ==
    /\ [](\A p \in Procs :
            loc[p].link = "mismatch"
            => /\ loc[p].pc = "done"
               /\ loc[p].result.kind = "InvalidCommentId"
               /\ loc[p].ops \subseteq {"health", "issuer"})
    /\ [][\A p \in Procs :
            (loc[p].pc = "issuer" /\ loc'[p].link = "mismatch")
            => members' = members /\ cards' = cards]_vars

\* a link to another video was refused for an active issuer
WrongVideoInLinkWitness ==
    /\ loc["p1"].pc = "done"
    /\ loc["p1"].link = "mismatch"
    /\ loc["p1"].issuer_id = "i1"
    /\ loc["p1"].result.kind = "InvalidCommentId"
    /\ "proof" \notin loc["p1"].ops

\* C19: Proof is on the verification video. Every comment verify_comment
\* accepts is posted on the issuer's verification video, so every card
\* created by issue_card rests on a comment posted on the video the card
\* records, whatever the form of the reference (full link, link with lc
\* only, bare comment id).
CommentOnVerificationVideo ==
    [][\A p \in Procs :
         /\ (loc[p].pc = "verify" /\ loc'[p].pc = "upsert")
            => loc'[p].comment_video
                 = CardIssuer(loc[p].issuer_id).verification_video_id
         /\ (loc[p].pc = "tx_commit" /\ cards' # cards)
            => loc[p].comment_video
                 = cards'[Len(cards')].verification_video_id]_vars

NextSession == SessionStep \/ TickCalls

SpecSession == Init /\ [][NextSession]_vars

\* polls of check_result while wallets present credentials
NextAudit == (\E c \in CheckProcs : CheckStep(c)) \/ Present \/ TickCalls

SpecAudit == Init /\ [][NextAudit]_vars

\* C21: A VerificationSession leaves Pending exactly once. Whatever
\* update_result, mark_expired and mark_failed calls are made for one
\* transaction id, a session whose status is completed, expired or failed
\* keeps that status: its status changes only from pending, and only once.
LeavesPendingOnce ==
    [][\A x \in VTxIds :
         (verificationSessions[x].status \in {"completed", "expired", "failed"}
            /\ HasRow(verificationSessions'[x]))
         => verificationSessions'[x].status = verificationSessions[x].status]_vars

\* the audit rows written for a transaction
EventsOf(transaction_id) ==
    {i \in DOMAIN verificationEvents :
        verificationEvents[i].transaction_id = transaction_id}

\* C22: Audit log. Rows of verification_events are only ever appended, and
\* each OIDVP transaction has at most one row, and exactly one once a
\* check_result call has answered 'completed' for it, however often
\* check_result is polled for the transaction.
OneEventPerOutcome ==
    /\ [](\A x \in VTxIds : Cardinality(EventsOf(x)) <= 1)
    /\ [](\A c \in CheckProcs :
            (chk[c].pc = "done" /\ chk[c].result = "completed")
            => Cardinality(EventsOf(chk[c].transaction_id)) = 1)
    /\ [][/\ Len(verificationEvents') >= Len(verificationEvents)
          /\ \A i \in DOMAIN verificationEvents :
               verificationEvents'[i] = verificationEvents[i]]_vars

\* concurrent find_or_create calls
NextMember == \E c \in MemberCallers : MemberStep(c)

SpecMember == Init /\ [][NextMember]_vars

NextRetry == \E r \in RetryCallers : RetryStep(r)

SpecRetry == Init /\ [][NextRetry]_vars

\* the HTTP 429 and HTTP 503 errors of the operation
Retryable == {ApiError(429), ApiError(503)}

\* C24: Bounded retry. retry_youtube_api calls the operation at most 3
\* times; it returns at once on success or on an error other than HTTP
\* 429/503, goes on to another call only after a 429/503, and after the
\* third retryable failure returns RateLimitExceeded when the last error was
\* 429 and ServiceUnavailable when it was 503.
BoundedRetry ==
    \A r \in RetryCallers :
      LET run == retry[r]
          n == Len(run.outcomes)
      IN run.pc # "idle" =>
         /\ n = run.attempt /\ n <= 3
         /\ run.pc = "loop" => n < 3
         /\ \A i \in 1..(n - 1) : run.outcomes[i] \in Retryable
         /\ (n > 0 /\ run.outcomes[n] \notin Retryable)
            => run.pc = "done" /\ run.result = run.outcomes[n]
         /\ (n > 0 /\ n < 3 /\ run.outcomes[n] \in Retryable)
            => run.pc \in {"sleep", "loop"}
         /\ (n = 3 /\ run.outcomes[3] = ApiError(429))
            => run.pc = "done" /\ run.result.kind = "RateLimitExceeded"
         /\ (n = 3 /\ run.outcomes[3] = ApiError(503))
            => run.pc = "done" /\ run.result.kind = "ServiceUnavailable"

\* a run that failed with 429, 503 and 429 gave up with RateLimitExceeded
BoundedRetryWitness ==
    /\ retry["r1"].pc = "done"
    /\ retry["r1"].outcomes = <<ApiError(429), ApiError(503), ApiError(429)>>
    /\ retry["r1"].result.kind = "RateLimitExceeded"

\* C25: Backoff schedule. When every attempt fails with a retryable error,
\* the delays slept before the distinct error is returned are 1 s, 2 s and
\* 4 s in that order, 7 s in total.
BackoffSchedule ==
    \A r \in RetryCallers :
      (retry[r].pc = "done"
         /\ retry[r].result.kind \in {"RateLimitExceeded", "ServiceUnavailable"})
      => retry[r].slept = <<1000, 2000, 4000>>

\* signing and verifying card payloads
NextSign == SigSign \/ SigTamper \/ SigVerify

SpecSign == Init /\ [][NextSign]_vars

\* a string of hex digits of even length
ValidHex(s) == Len(s) % 2 = 0 /\ \A i \in DOMAIN s : hex_val(s[i]) # Null

\* C26: Sign/verify. verify(p, sign(p, k), k) is true; verify is false for
\* a different key, for a changed payload and for any changed signature that
\* is still hex; a signature that is not valid hex yields InvalidFormat;
\* sign(p, k) returns the same value on every call.
SignVerify ==
    LET g == fn
    IN /\ g.pc \in {"signed", "tampered", "verified"}
          => g.signed = sign(g.payload, g.key)
       /\ g.pc = "verified" =>
            /\ (g.signature_hex = g.signed /\ g.vpayload = g.payload /\ g.vkey = g.key)
               => g.result = "Ok(true)"
            /\ (g.signature_hex = g.signed /\ (g.vpayload # g.payload \/ g.vkey # g.key))
               => g.result = "Ok(false)"
            /\ (g.signature_hex # g.signed /\ ValidHex(g.signature_hex))
               => g.result = "Ok(false)"
            /\ ~ValidHex(g.signature_hex) => g.result = "InvalidFormat"

\* extracting credential ids from tokens
NextJwt == JwtReceive \/ JwtExtract

SpecJwt == Init /\ [][NextJwt]_vars

\* the last '/'-separated segment of the jti of a three-part token with a
\* decodable payload, "" when there is none
FinalSegment(jwt_token) ==
    IF Len(jwt_token) = 3 /\ jwt_token[2].kind = "claims"
    THEN jwt_token[2].jti[Len(jwt_token[2].jti)]
    ELSE ""

\* C27: Credential id extraction. For a three-part token whose payload has
\* a jti, extract_cid_from_jwt returns the final path segment of the jti,
\* whatever the signature part is; it fails when the token does not have
\* exactly 3 parts, when the payload is not base64url JSON with a jti, or
\* when the final segment is empty, so a returned id is never empty.
CidExtraction ==
    LET g == fn
    IN g.pc = "jwt_extracted" =>
         /\ FinalSegment(g.jwt_token) # ""
            => g.result = [ok |-> TRUE, cid |-> FinalSegment(g.jwt_token)]
         /\ (\/ Len(g.jwt_token) # 3
             \/ g.jwt_token[2].kind # "claims"
             \/ FinalSegment(g.jwt_token) = "") => ~g.result.ok
         /\ g.result.ok => g.result.cid \notin {"", NoCid}

\* the id was taken from a token whose signature part is forged
CidExtractionWitness ==
    /\ fn.pc = "jwt_extracted"
    /\ Len(fn.jwt_token) = 3
    /\ fn.jwt_token[3] = Forged
    /\ fn.result = [ok |-> TRUE, cid |-> "cid2"]

\* parsing submitted references
NextRef == RefSubmit \/ RefExtract

SpecRef == Init /\ [][NextRef]_vars

\* the values the query of an input gives to a key
ValuesOf(input, key) ==
    {input.query[i].value : i \in {j \in DOMAIN input.query : input.query[j].key = key}}

IsBare(input) == \A i \in DOMAIN input.chars : input.chars[i] \in BareChars

IsLink(input) == ~IsBare(input) /\ UrlParses(input)

\* C28: Reference parsing. extract_comment_and_video_id returns
\* (C, Some(V)) for a link with query parameters v=V and lc=C, (id, None) for
\* a bare id made only of alphanumerics, '-' and '_', and None for an input
\* that is not a link or a link without an lc parameter; a returned comment
\* id is the lc value or the whole input.
ReferenceParsing ==
    LET g == fn
    IN g.pc = "ref_extracted" =>
         /\ IsBare(g.input)
            => g.result = [ok |-> TRUE, comment_id |-> g.input.chars, video_id |-> None]
         /\ (IsLink(g.input) /\ ValuesOf(g.input, "lc") # {}
                             /\ ValuesOf(g.input, "v") # {})
            => /\ g.result.ok
               /\ g.result.comment_id \in ValuesOf(g.input, "lc")
               /\ g.result.video_id.some
               /\ g.result.video_id.value \in ValuesOf(g.input, "v")
         /\ (~IsBare(g.input) /\ (~IsLink(g.input) \/ ValuesOf(g.input, "lc") = {}))
            => ~g.result.ok
         /\ g.result.ok
            => \/ g.result.comment_id \in ValuesOf(g.input, "lc")
               \/ g.result.comment_id = g.input.chars /\ IsBare(g.input)

\* a link with v=W and lc=D gave (D, Some(W))
ReferenceParsingWitness ==
    /\ fn.pc = "ref_extracted"
    /\ fn.input.query = <<[key |-> "v", value |-> <<"W">>],
                              [key |-> "lc", value |-> <<"D">>]>>
    /\ fn.result = [ok |-> TRUE, comment_id |-> <<"D">>, video_id |-> Some(<<"W">>)]

\* one issue_card call that may be abandoned at any await
NextCancel ==
    \/ IssueStepAlone("p1", {"u1"}, {"V"})
    \/ Cancel("p1")
    \/ TickCalls

SpecCancel == Init /\ [][NextCancel]_vars

\* C29: No orphaned card on cancellation. When an issue_card call is
\* abandoned at a suspension point, the store holds no card row of that call
\* that lacks wallet_transaction_id and wallet_qr_code; a minted wallet QR
\* with no card row is the only leftover.
NoOrphanedCard ==
    \A p \in Procs :
      (loc[p].pc = "dropped" /\ loc[p].card_id # 0)
      => /\ cards[loc[p].card_id].wallet_transaction_id # Null
         /\ cards[loc[p].card_id].wallet_qr_code # Null

\* a card last verified at lv is due at time t: never verified, or verified
\* more than 24 hours before t
VerifiedLongAgo(lv, t) == lv = Null \/ t - lv > 1

\* a list of card ids that a selection at time t may return for limit N
GoodSelection(b, N, t) ==
    /\ Len(b) <= N
    /\ \A k \in DOMAIN b :
         /\ cards[b[k]].status = "active"
         /\ VerifiedLongAgo(cards[b[k]].last_verified_at, t)
    /\ \A k, l \in DOMAIN b :
         k < l => /\ b[k] # b[l]
                  /\ \/ cards[b[k]].last_verified_at = Null
                     \/ /\ cards[b[l]].last_verified_at # Null
                        /\ cards[b[k]].last_verified_at <= cards[b[l]].last_verified_at

\* C30: Sweep selection. A sweep with batch size N selects at most N
\* cards, each Active and with last_verified_at null or more than 24 hours
\* old at selection time, never-verified cards first and then by ascending
\* last_verified_at; a card that a sweep extended or failed is not selected
\* again by any sweep within the next 24 hours.
SweepSelection ==
    /\ [](\A N \in 1..MaxBatch :
            \A b \in find_cards_needing_verification(cards, N, now) :
               GoodSelection(b, N, now))
    /\ [][(job.pc = "idle" /\ job'.pc = "load")
          => /\ GoodSelection(job'.batch, MaxBatch, now)
             /\ \A i \in DOMAIN cards :
                  (cards[i].last_verified_at # Null
                     /\ now - cards[i].last_verified_at <= 1)
                  => \A k \in DOMAIN job'.batch : job'.batch[k] # i]_vars

\* a sweep selected a never-verified card ahead of one verified two days ago
SweepSelectionWitness ==
    /\ job.pc = "load" /\ job.idx = 1
    /\ Len(job.batch) = 2
    /\ cards[job.batch[1]].last_verified_at = Null
    /\ cards[job.batch[2]].last_verified_at # Null

\* C31: The health probe applies only when a wallet backend is configured.
\* A call made with no wallet backend configured sends no health probe and
\* is not rejected at the first step: every call that ended without a
\* health probe has gone through issuer validation.
ProbeOnlyWhenConfigured ==
    \A p \in Procs :
      (loc[p].pc = "done" /\ "health" \notin loc[p].ops)
      => "issuer" \in loc[p].ops

\* the requested issuer has no row or its row has is_active = false
UnusableIssuer(i) == i \notin IssuerIds \/ ~CardIssuer(i).is_active

\* C32: Issuer validation. When the requested issuer does not exist or has
\* is_active = false, the call has ended with IssuerNotFound (DatabaseError
\* when the lookup itself failed) having made no proof check, no member
\* upsert, no wallet QR request and no card write; IssuerNotFound is
\* returned for no other reason, and the step that returns it leaves the
\* stores as they were.
IssuerValidation ==
    /\ [](\A p \in Procs :
            /\ ("issuer" \in loc[p].ops /\ UnusableIssuer(loc[p].issuer_id))
               => /\ loc[p].pc = "done"
                  /\ loc[p].result.kind \in {"IssuerNotFound", "DatabaseError"}
                  /\ loc[p].ops = {"health", "issuer"}
                  /\ loc[p].member_id = 0
                  /\ loc[p].wallet = NoWallet
                  /\ loc[p].card_id = 0
                  /\ loc[p].tx_new = NoCard
            /\ loc[p].result.kind = "IssuerNotFound"
               => /\ "issuer" \in loc[p].ops
                  /\ UnusableIssuer(loc[p].issuer_id))
    /\ [][\A p \in Procs :
            (loc[p].result.kind # "IssuerNotFound"
               /\ loc'[p].result.kind = "IssuerNotFound")
            => /\ loc[p].pc = "issuer"
               /\ UNCHANGED <<cards, members, walletMinted>>]_vars

\* a call for the inactive issuer ended with IssuerNotFound
IssuerValidationWitness ==
    \E p \in Procs : /\ loc[p].pc = "done"
                     /\ loc[p].issuer_id = "i2"
                     /\ loc[p].result.kind = "IssuerNotFound"

\* the upstream API answered the membership check with 429 or 503
Throttled(resp) == resp.kind = "status" /\ resp.status \in {429, 503}

\* C33: The re-verification job applies the bounded backoff. When the
\* upstream API answers a card's membership check with 429 or 503, the job
\* repeats the check (up to 3 attempts) before it counts the card as an API
\* error: the first such answer for a card does not end the card's
\* verification with ApiError.
JobBackoff ==
    [][(job.pc = "check" /\ job.resp = NoVideoResponse /\ Throttled(job'.resp))
       => job'.result # "ApiError"]_vars

NextName == NameReceive \/ NameSanitize

SpecName == Init /\ [][NextName]_vars

\* characters the wallet backend accepts: ASCII letters and digits,
\* underscore, CJK ideographs U+4E00..U+9FFF
WalletAccepts(c) ==
    \/ c \in 48..57 \/ c \in 65..90 \/ c \in 97..122
    \/ c = 95
    \/ c \in 19968..40959

\* C34: Sanitized display name. The name field sent to the wallet API
\* contains only ASCII letters and digits, underscore and CJK ideographs,
\* keeps those characters of the author display name in order, and is the
\* literal "Member" when nothing remains, so it is never empty.
SanitizedName ==
    fn.pc = "name_sanitized"
    => LET kept == SelectSeq(fn.author_display_name, WalletAccepts)
       IN /\ \A i \in DOMAIN fn.display_name : WalletAccepts(fn.display_name[i])
          /\ fn.display_name = IF kept = <<>> THEN MemberLiteral ELSE kept
          /\ fn.display_name # <<>>

\* a store of one card in any status, with or without an expiry
InitVerify ==
    /\ \E status \in CardStatus, expires_at \in {Null, CREATE_EXPIRATION_DAYS} :
         cards = <<[IssuedCard EXCEPT !.status = status, !.expires_at = expires_at]>>
    /\ members = <<NewMember("u1", CurrentDisplayName)>>
    /\ walletMinted = 1
    /\ streak = <<0>>
    /\ sessions = <<IssuedSession(1, 1)>>
    /\ tokensIssued = 1
    /\ tok = [h \in Handlers |-> TokIdle]
    /\ SideInit
    /\ now = 0
    /\ ticks = 0
    /\ calls = 0
    /\ loc = [p \in Procs |-> Idle]
    /\ job = JobIdle
    /\ walletQrCodes = <<>>
    /\ scanned = {}
    /\ poll = [q \in PollProcs |-> PollIdle]

\* QR scans while time passes
NextVerify == QrFindCard \/ QrVerdict \/ Tick

SpecVerify == InitVerify /\ [][NextVerify]_vars

\* the verdict the claim gives for a row read with this status and expiry
\* when the status is matched at time t
ClaimedVerdict(card, t) ==
    CASE card.status = "active" /\ (card.expires_at = Null \/ card.expires_at >= t)
           -> {"Success"}
      [] card.status = "active" /\ card.expires_at # Null /\ card.expires_at < t
           -> {"CardExpired"}
      [] card.status = "expired"   -> {"CardExpired"}
      [] card.status = "revoked"   -> {"CardRevoked"}
      [] card.status = "suspended" -> {"CardSuspended"}
      [] OTHER -> {"CardExpired", "CardRevoked", "CardSuspended", "CardNotFound",
                   "InvalidPayload", "unmatched"}

JobWrites ==
    /\ job.pc \in {"extend", "increment", "set_status"}
    /\ job'.pc # job.pc
    /\ cards'[JobCard] # cards[JobCard]

\* C36: Stale-selection safety. The re-verification job changes a card
\* (extend_expiration, increment_verification_failure, set_status(Expired))
\* only if that card is still Active at the time of the write; a card that
\* was superseded, revoked or suspended after the sweep selected it keeps
\* its status, expires_at and verification_failures.
StaleSelectionSafety ==
    [][JobWrites => cards[JobCard].status = "active"]_vars

\* a verify_single_card call for card c has started and has not returned
VerifyInProgress(c) ==
    /\ job.pc \in {"load", "refresh", "update_tokens", "check",
                   "extend", "increment", "set_status"}
    /\ JobCard = c

\* C37: Escalation is not observable half-done. Whenever no
\* verify_single_card call is in progress for a card, an Active card has
\* verification_failures < FAILURE_THRESHOLD, also when the
\* set_status(Expired) write failed after the increment succeeded.
EscalationComplete ==
    \A c \in DOMAIN cards :
      (~VerifyInProgress(c) /\ cards[c].status = "active")
      => cards[c].verification_failures < FAILURE_THRESHOLD

\* the steps of sweeps that are all run with batch size 1
SweepStep ==
    \/ JobSelectBatch(1) \/ JobLoad \/ JobRefresh \/ JobUpdateTokens \/ JobCheck
    \/ JobExtend \/ JobIncrement \/ JobSetStatus \/ JobNext \/ JobReturn

NextSweep == SweepStep \/ Tick

\* The scheduler starts sweep after sweep and every awaited call of a sweep
\* returns.
SpecSweep == InitJob /\ [][NextSweep]_vars /\ WF_vars(SweepStep)

\* C38: Sweep progress. With sweeps run repeatedly with a fixed batch size,
\* every Active card that is due for verification is eventually selected by
\* some sweep, also when other due cards keep ending in token-refresh or
\* API errors on every sweep.  (Behaviours in which a database query fails
\* are left aside.)
SweepProgress ==
    \/ <>(job.result = "DatabaseError" \/ job.ret = "Err")
    \/ \A c \in {1, 2} :
         (c \in DueCards(cards, now)) ~> VerifyInProgress(c)

\* C39: One notion of 'unexpired'. For every Active card and every instant,
\* the instant now = expires_at included, the dedupe query
\* find_active_unexpired_cards, MembershipCard::is_expired and
\* verify_qr_payload agree on whether the card is expired: no card is
\* accepted as Success at verification and treated as expired (replaceable)
\* by issuance at the same instant.
OneNotionOfUnexpired ==
    \A i \in DOMAIN cards :
      cards[i].status = "active"
      => LET unexpired_for_dedupe ==
                 i \in find_active_unexpired_cards(cards, cards[i].issuer_id,
                                                   cards[i].member_id, now)
             verdict ==
                 card_status_verdict([id |-> i, status |-> cards[i].status,
                                      expires_at |-> cards[i].expires_at], now)
         IN /\ unexpired_for_dedupe <=> ~card_is_expired(cards[i], now)
            /\ unexpired_for_dedupe <=> (verdict = "Success")

====
